---- MODULE Spec2Model ----
(***************************************************************************)
(* A model of the core of @insightcreativewebs/api: the rule-based         *)
(* validation engine (rules-common.ts, validation-helper.ts,               *)
(* validation.ts), the request dispatcher and error-handler registry       *)
(* (router-builder.ts, error-exception.middleware.ts) and the service      *)
(* configuration wrapper (base-service.ts), the module registry and route  *)
(* builder (router-manager.ts, router-builder.ts), the application context *)
(* provider (application-context.ts) and the logger's memory (logger.ts).  *)
(*                                                                         *)
(* The specifications share the variables: SpecV drives the validation     *)
(* engine, SpecP the request pipeline (whose handlers may call             *)
(* schema.check), SpecS the service wrapper, SpecR the module registry and *)
(* route builder, SpecC the context provider and SpecLogger the logger.    *)
(* Each holds the variables of the other parts at idle values.             *)
(***************************************************************************)
EXTENDS Integers, Sequences, FiniteSets, TLC

VARIABLES
    vSchema,    \* validation: the rule map bound by schema(rules)
    vInput,     \* validation: the input record handed to check / pick
    vPc,        \* validation: "init", or the last call made on a schema
    vOut,       \* validation: outcome of the last check call
    vExt,       \* validation: the rule map of the schema extend returned
    vPick,      \* validation: the record the last pick call returned
    handlers,   \* ErrorHandlerRegistry.handlers
    errorMw,    \* the terminal error middleware installed on the app
    pc,         \* request: "idle" | "error" | "done" | "crashed"
    reqErr,     \* request: the value handed to next(error)
    res,        \* request: the transport response object
    handled,    \* request: what errorHandlerRegistry.handle returned
    reqBeh,     \* request: what the route's handler did
    mwCreated,  \* the error middlewares createErrorMiddleware has returned
    insts,      \* service: the service instances (clones included)
    ctxStore,   \* service: the context maps the instances refer to
    lastOp,     \* service: the last operation and the reference it returned
    lastCall,   \* service: the last method call and its outcome
    heap,       \* routes: the ModuleDefinition objects, by reference
    modules,    \* routes: RoutesManager.modules, references into heap
    mounted,    \* routes: what RouteBuilder.build mounted on the app
    lastInvoke, \* routes: the last handler invocation of the dispatcher
    registered, \* routes: the arguments of the register calls so far
    globalContext,  \* context: the stored ApplicationContext (0 for null)
    appState,       \* context: the _state of every ApplicationContext
    lastCtxOp,      \* context: the last provider operation and how it ended
    logs,           \* logger: Logger.logs, the entries held in memory
    maxMemoryLogs,  \* logger: Logger.maxMemoryLogs
    logCounter,     \* logger: Logger.logCounter
    loggerConfig    \* logger: Logger.config (enabled, debugMode, persistMode)

vVars == <<vSchema, vInput, vPc, vOut, vExt, vPick>>
pVars == <<handlers, errorMw, pc, reqErr, res, handled, reqBeh, mwCreated>>
sVars == <<insts, ctxStore, lastOp, lastCall>>
rVars == <<heap, modules, mounted, lastInvoke, registered>>
cVars == <<globalContext, appState, lastCtxOp>>
lVars == <<logs, maxMemoryLogs, logCounter, loggerConfig>>
xVars == <<rVars, cVars, lVars>>
vars == <<vSchema, vInput, vPc, vOut, vExt, vPick, handlers, errorMw, pc, reqErr, res,
          handled, reqBeh, mwCreated, insts, ctxStore, lastOp, lastCall,
          heap, modules, mounted, lastInvoke, registered, globalContext, appState, lastCtxOp,
          logs, maxMemoryLogs, logCounter, loggerConfig>>

rIdle ==
    /\ heap = <<>>
    /\ modules = <<>>
    /\ mounted = <<>>
    /\ lastInvoke = <<>>
    /\ registered = <<>>

cIdle ==
    /\ globalContext = 0
    /\ appState = <<>>
    /\ lastCtxOp = <<>>

lIdle ==
    /\ logs = <<>>
    /\ maxMemoryLogs = 0
    /\ logCounter = 0
    /\ loggerConfig = <<>>

(***************************************************************************)
(* JavaScript values.  Every value is a record of one shape so that any    *)
(* two values can be compared: t is the type tag, s the characters of a    *)
(* string, n the number.                                                   *)
(***************************************************************************)
Undefined == [t |-> "undefined", s |-> <<>>, n |-> 0]
Null == [t |-> "null", s |-> <<>>, n |-> 0]
Str(chars) == [t |-> "string", s |-> chars, n |-> 0]
Num(k) == [t |-> "number", s |-> <<>>, n |-> k]
Bool(b) == [t |-> "boolean", s |-> <<>>, n |-> IF b THEN 1 ELSE 0]

\* Bound: the longest string among the field values.
MaxStrLen == 2

Chars == {" ", "a"}

RECURSIVE StringsUpTo(_)
StringsUpTo(k) ==
    IF k = 0 THEN {<<>>}
    ELSE LET shorter == StringsUpTo(k - 1)
         IN shorter \cup {Append(w, c) : w \in {x \in shorter : Len(x) = k - 1}, c \in Chars}

FieldValues ==
    {Undefined, Null, Num(0), Bool(FALSE)} \cup {Str(w) : w \in StringsUpTo(MaxStrLen)}

\* ToBoolean
Truthy(v) ==
    CASE v.t = "undefined" -> FALSE
      [] v.t = "null" -> FALSE
      [] v.t = "string" -> v.s # <<>>
      [] v.t = "number" -> v.n # 0
      [] v.t = "boolean" -> v.n = 1
      [] OTHER -> TRUE

\* String(value) for the values of the model
StringOf(v) ==
    CASE v.t = "string" -> v
      [] v.t = "number" -> Str(<<"0">>)
      [] v.t = "boolean" -> IF v.n = 1 THEN Str(<<"t", "r", "u", "e">>)
                                        ELSE Str(<<"f", "a", "l", "s", "e">>)
      [] OTHER -> Str(<<"o">>)

\* helper.ts to_string(value, defaultValue)
to_string(value, defaultValue) ==
    IF value = Undefined \/ value = Null \/ value = Str(<<>>)
    THEN defaultValue
    ELSE StringOf(value)

\* String.prototype.trim
RECURSIVE TrimLeft(_)
TrimLeft(w) == IF w # <<>> /\ Head(w) = " " THEN TrimLeft(Tail(w)) ELSE w

RECURSIVE TrimRight(_)
TrimRight(w) ==
    IF w # <<>> /\ w[Len(w)] = " " THEN TrimRight(SubSeq(w, 1, Len(w) - 1)) ELSE w

Trim(w) == TrimRight(TrimLeft(w))

(***************************************************************************)
(* Rules (rules-common.ts).  A rule is a record naming its constructor     *)
(* and the constructor's arguments; RuleApply is the function the          *)
(* constructor returns.  A rule returns a message or NoError (null).       *)
(***************************************************************************)
NoError == "<null>"

MsgRequired == "Campo obrigatorio"
MsgNotAllowed == "Valor nao permitido"
MsgMinLength == "Minimo 2 caracteres"

\* A rule: needsContext, isDefault and defaultValue are the properties the
\* constructors set on the function; inner are the rules optionalBut closes
\* over, sibling the field requiredWhen looks at, condition the predicate
\* requiredIf is given ("always": () => true, "never": () => false).
Rule(kind, msg, len, allowed, isDefault, defaultValue, inner) ==
    [kind |-> kind, msg |-> msg, len |-> len, allowed |-> allowed,
     isDefault |-> isDefault, defaultValue |-> defaultValue, inner |-> inner,
     needsContext |-> FALSE, sibling |-> "", condition |-> "none"]

required == Rule("required", MsgRequired, 0, {}, FALSE, Undefined, <<>>)
optional == Rule("optional", NoError, 0, {}, FALSE, Undefined, <<>>)
minLength(k) == Rule("minLength", MsgMinLength, k, {}, FALSE, Undefined, <<>>)
requiredIn(vals) == Rule("requiredIn", MsgNotAllowed, 0, vals, FALSE, Undefined, <<>>)
default_value(value) == Rule("default_value", NoError, 0, {}, TRUE, value, <<>>)
optionalBut(rules) == Rule("optionalBut", NoError, 0, {}, FALSE, Undefined, rules)
requiredIf(condition) ==
    [Rule("requiredIf", MsgRequired, 0, {}, FALSE, Undefined, <<>>)
        EXCEPT !.needsContext = TRUE, !.condition = condition]
requiredWhen(field, values) ==
    [Rule("requiredWhen", MsgRequired, 0, values, FALSE, Undefined, <<>>)
        EXCEPT !.needsContext = TRUE, !.sibling = field]

\* (v) => !to_string(v, '') ? msg : null
RequiredFn(rule, v) ==
    IF ~Truthy(to_string(v, Str(<<>>))) THEN rule.msg ELSE NoError

\* (v) => v && v.length < len ? msg : null
MinLengthFn(rule, v) ==
    IF Truthy(v) /\ v.t = "string" /\ Len(v.s) < rule.len THEN rule.msg ELSE NoError

RequiredInFn(rule, v) ==
    IF ~Truthy(v) /\ v # Num(0) /\ v # Bool(FALSE) THEN rule.msg
    ELSE IF v \notin rule.allowed THEN rule.msg
    ELSE NoError

\* `if (error)`: a rule result counts as an error when it is truthy
IsError(r) == r # NoError /\ r # ""

\* a rule that does not wrap other rules, applied to a value
SimpleApply(rule, v) ==
    CASE rule.kind = "required" -> RequiredFn(rule, v)
      [] rule.kind = "optional" -> NoError
      [] rule.kind = "default_value" -> NoError
      [] rule.kind = "minLength" -> MinLengthFn(rule, v)
      [] rule.kind = "requiredIn" -> RequiredInFn(rule, v)
      [] OTHER -> NoError

\* optionalBut's isEmpty: undefined, null, '' or a whitespace-only string
OptionalButIsEmpty(value) ==
    \/ value = Undefined
    \/ value = Null
    \/ value = Str(<<>>)
    \/ (value.t = "string" /\ Trim(value.s) = <<>>)

\* optionalBut's `for (const rule of rules)`: the error returned and the
\* wrapped rules invoked, in order
RECURSIVE OptionalButLoop(_, _, _, _)
OptionalButLoop(rules, i, value, invoked) ==
    IF i > Len(rules) THEN [error |-> NoError, invoked |-> invoked]
    ELSE LET error == SimpleApply(rules[i], value)
         IN IF IsError(error)
            THEN [error |-> error, invoked |-> Append(invoked, i)]
            ELSE OptionalButLoop(rules, i + 1, value, Append(invoked, i))

\* OptionalButRun, had it looked at the value the way required does
OptionalButRun_BlankIsValue(rule, value) ==
    IF ~Truthy(to_string(value, Str(<<>>)))
    THEN [error |-> NoError, invoked |-> <<>>]
    ELSE OptionalButLoop(rule.inner, 1, value, <<>>)

\* the function optionalBut(...rules) returns
OptionalButRun(rule, value) ==
    IF OptionalButIsEmpty(value)
    THEN [error |-> NoError, invoked |-> <<>>]
    ELSE OptionalButLoop(rule.inner, 1, value, <<>>)

\* (value, input) => condition(input) && !to_string(value, '') ? msg : null
RequiredIfFn(rule, value, input) ==
    IF rule.condition = "always" /\ ~Truthy(to_string(value, Str(<<>>)))
    THEN rule.msg ELSE NoError

\* (fieldValue, input) => matches && !to_string(fieldValue, '') ? msg : null,
\* matches being whether input[field] is the value or one of the values
RequiredWhenFn(rule, fieldValue, input) ==
    IF input[rule.sibling] \in rule.allowed /\ ~Truthy(to_string(fieldValue, Str(<<>>)))
    THEN rule.msg ELSE NoError

\* rule.needsContext ? rule(value, input) : rule(value)
RuleApply(rule, v, input) ==
    IF rule.needsContext
    THEN IF rule.kind = "requiredIf" THEN RequiredIfFn(rule, v, input)
         ELSE RequiredWhenFn(rule, v, input)
    ELSE IF rule.kind = "optionalBut" THEN OptionalButRun(rule, v).error
         ELSE SimpleApply(rule, v)

(***************************************************************************)
(* Validation (validation.ts)                                              *)
(***************************************************************************)
ERR_FIELD == "ERR_FIELD"
ERR_UNKNOWN == "ERR_UNKNOWN"
NoField == "<null>"

ValidationMessage(code, message, field) ==
    [code |-> code, message |-> message, field |-> field]

\* Validation.add(...args): one, two or three positional arguments; an
\* argument is falsy when it is the empty string.
Add(messages, args) ==
    CASE Len(args) = 1 ->
            Append(messages, ValidationMessage(ERR_UNKNOWN, args[1], NoField))
      [] Len(args) = 2 ->
            LET code == IF args[1] # "" THEN args[1] ELSE ERR_UNKNOWN
            IN IF args[2] # ""
               THEN Append(messages, ValidationMessage(code, args[2], NoField))
               ELSE messages
      [] Len(args) = 3 ->
            LET code == IF args[2] # "" THEN args[2] ELSE ERR_UNKNOWN
            IN IF args[1] # "" /\ args[3] # ""
               THEN Append(messages, ValidationMessage(code, args[3], args[1]))
               ELSE messages
      [] OTHER -> messages

isValid(messages) == Len(messages) = 0

\* Validation.getFormatted(): field -> message, "_error" for a message
\* without a field; a later message overwrites an earlier one.
RECURSIVE getFormatted(_)
getFormatted(messages) ==
    IF messages = <<>> THEN <<>>
    ELSE LET n == Len(messages)
             msg == messages[n]
             key == IF msg.field # NoField THEN msg.field ELSE "_error"
             rest == getFormatted(SubSeq(messages, 1, n - 1))
             kept == SelectSeq(rest, LAMBDA e : e.key # key)
         IN Append(kept, [key |-> key, message |-> msg.message])

(***************************************************************************)
(* validate and schema.check (validation-helper.ts).  A rule map is the    *)
(* sequence of its entries in insertion order, each entry a field name     *)
(* and the array of its rules.  Besides the messages, validate's model     *)
(* records every rule invocation (field, position, result): the probe a    *)
(* test double would observe.                                              *)
(***************************************************************************)
Fields == {"name", "email"}

Inputs == [Fields -> FieldValues]

RECURSIVE RunRules(_, _, _, _, _)
RunRules(field, ruleArray, i, input, acc) ==
    IF i > Len(ruleArray) THEN acc
    ELSE LET error == RuleApply(ruleArray[i], input[field], input)
             acc1 == [messages |-> IF IsError(error)
                                   THEN Add(acc.messages, <<error>>)
                                   ELSE acc.messages,
                      calls |-> Append(acc.calls,
                                   [field |-> field, idx |-> i, result |-> error])]
         IN RunRules(field, ruleArray, i + 1, input, acc1)

RECURSIVE RunFields(_, _, _, _)
RunFields(rules, k, input, acc) ==
    IF k > Len(rules) THEN acc
    ELSE RunFields(rules, k + 1, input,
                   RunRules(rules[k].field, rules[k].rules, 1, input, acc))

validate(input, rules) ==
    RunFields(rules, 1, input, [messages |-> <<>>, calls |-> <<>>])

\* schema(rules).check(input): throws the Validation when it is not valid
check(input, rules) ==
    LET validation == validate(input, rules)
    IN [thrown |-> ~isValid(validation.messages),
        messages |-> validation.messages,
        calls |-> validation.calls]

NoOutcome == [thrown |-> FALSE, messages |-> <<>>, calls |-> <<>>]

(***************************************************************************)
(* sanitize, schema.pick and schema.extend (validation-helper.ts).  The    *)
(* record sanitize builds is the sequence of its properties in insertion   *)
(* order.  An input property that is undefined stands for an absent one    *)
(* too: sanitize tells the two apart nowhere.                              *)
(***************************************************************************)
Property(key, value) == [key |-> key, value |-> value]

\* field in input && input[field] !== undefined && !== null && !== ''
IsSupplied(input, field) ==
    /\ input[field] # Undefined
    /\ input[field] # Null
    /\ input[field] # Str(<<>>)

\* ruleArray.find((r) => r && r.isDefault): its position, 0 when there is none
FindDefault(ruleArray) ==
    LET found == {i \in 1..Len(ruleArray) : ruleArray[i].isDefault}
    IN IF found = {} THEN 0 ELSE CHOOSE i \in found : \A j \in found : i <= j

\* SanitizeField, had it looked for the default before the input's value
SanitizeField_DefaultFirst(entry, input, result) ==
    LET defaultRule == FindDefault(entry.rules)
    IN IF defaultRule # 0
       THEN Append(result, Property(entry.field, entry.rules[defaultRule].defaultValue))
       ELSE IF IsSupplied(input, entry.field)
            THEN Append(result, Property(entry.field, input[entry.field]))
            ELSE result

\* the body of sanitize's allowedFields.forEach
SanitizeField(entry, input, result) ==
    LET defaultRule == FindDefault(entry.rules)
    IN IF IsSupplied(input, entry.field)
       THEN Append(result, Property(entry.field, input[entry.field]))
       ELSE IF defaultRule # 0
            THEN Append(result, Property(entry.field, entry.rules[defaultRule].defaultValue))
            ELSE result

RECURSIVE SanitizeFrom(_, _, _, _)
SanitizeFrom(rules, k, input, result) ==
    IF k > Len(rules) THEN result
    ELSE SanitizeFrom(rules, k + 1, input, SanitizeField(rules[k], input, result))

\* sanitize, had it started from a copy of the input ({ ...input })
sanitize_CopiesInput(input, rules) ==
    LET copy == <<Property("name", input["name"]), Property("email", input["email"])>>
        own == SelectSeq(copy, LAMBDA p : p.value # Undefined
                                         /\ \A k \in 1..Len(rules) : rules[k].field # p.key)
    IN own \o SanitizeFrom(rules, 1, input, <<>>)

sanitize(input, rules) == SanitizeFrom(rules, 1, input, <<>>)

\* schema(rules).pick(input)
pick(input, rules) == sanitize(input, rules)

NoPick == <<>>

\* { ...rules, ...extraRules }: the properties of rules in their order, those
\* extraRules also has taking its value, then the rest of extraRules
SpreadRules(rules, extraRules) ==
    LET Extra(f) == {j \in 1..Len(extraRules) : extraRules[j].field = f}
        kept == [k \in 1..Len(rules) |->
                    IF Extra(rules[k].field) = {} THEN rules[k]
                    ELSE extraRules[CHOOSE j \in Extra(rules[k].field) : TRUE]]
        added == SelectSeq(extraRules,
                           LAMBDA e : \A k \in 1..Len(rules) : rules[k].field # e.field)
    IN kept \o added

\* extend, had it merged the extra rules into the schema's own rule map
\* (Object.assign(rules, extraRules))
extend_InPlace(rules, extraRules) ==
    [rules |-> SpreadRules(rules, extraRules), schema |-> SpreadRules(rules, extraRules)]

\* schema(rules).extend(extraRules): the rule map the schema is left with and
\* the rule map of the schema returned
extend(rules, extraRules) ==
    [rules |-> rules, schema |-> SpreadRules(rules, extraRules)]

AllowedA == {Str(<<"a">>)}

RuleArrays ==
    { <<required>>,
      <<optional>>,
      <<required, minLength(2)>>,
      <<required, requiredIn(AllowedA)>>,
      <<minLength(2), requiredIn(AllowedA)>> }

Entry(f, ra) == [field |-> f, rules |-> ra]

\* Rule arrays with a default or with wrapped rules.
DefaultRuleArrays ==
    { <<default_value(Str(<<"a">>))>>,
      <<required, default_value(Num(0))>>,
      <<optionalBut(<<minLength(2), requiredIn(AllowedA)>>)>> }

\* Rule maps with the context-aware rules.
ContextSchemas ==
    { <<Entry("name", <<requiredIf("always")>>)>>,
      <<Entry("name", <<requiredWhen("email", AllowedA)>>)>>,
      <<Entry("name", <<requiredIf("never"), requiredWhen("email", AllowedA)>>),
        Entry("email", <<optional>>)>> }

Schemas ==
    {<<Entry(f, ra)>> : f \in Fields, ra \in RuleArrays \cup DefaultRuleArrays}
    \cup {<<Entry(p[1], ra), Entry(p[2], rb)>> :
            p \in {q \in Fields \X Fields : q[1] # q[2]},
            ra \in RuleArrays, rb \in RuleArrays}
    \cup {<<Entry("name", ra), Entry("email", <<required>>)>> : ra \in DefaultRuleArrays}
    \cup {<<Entry("name", <<required>>), Entry("email", ra)>> : ra \in DefaultRuleArrays}
    \cup ContextSchemas

\* The rule maps extend is driven with.
ExtraRules ==
    { <<Entry("email", <<required>>)>>,
      <<Entry("name", <<optional>>), Entry("email", <<default_value(Str(<<"a">>))>>)>> }

(***************************************************************************)
(* Thrown values, response payloads and the response object                *)
(***************************************************************************)
NullStr == "<null>"
UndefinedStr == "<undefined>"

\* `x || fallback` and `!x` on an optional string
FalsyStr(m) == m = UndefinedStr \/ m = NullStr \/ m = ""

ThrownValue(t, type, statusCode, message, stack, messages) ==
    [t |-> t, type |-> type, statusCode |-> statusCode, message |-> message,
     stack |-> stack, messages |-> messages]

\* the Validation instance schema.check throws
ValidationError(messages) ==
    ThrownValue("Validation", UndefinedStr, 0, UndefinedStr, UndefinedStr, messages)

\* new AppException(message, statusCode)
AppException(message, statusCode) ==
    ThrownValue("AppException", UndefinedStr, statusCode, message, "stack-trace", <<>>)

\* the error of express.json() on a malformed body
ParseFailed ==
    ThrownValue("Error", "entity.parse.failed", 400, "Unexpected token", "stack-trace", <<>>)

PlainError(message) ==
    ThrownValue("Error", UndefinedStr, 0, message, "stack-trace", <<>>)

ThrownNull == ThrownValue("null", UndefinedStr, 0, UndefinedStr, UndefinedStr, <<>>)
ThrownUndefined == ThrownValue("undefined", UndefinedStr, 0, UndefinedStr, UndefinedStr, <<>>)
ThrownString == ThrownValue("string", UndefinedStr, 0, UndefinedStr, UndefinedStr, <<>>)
NoThrown == ThrownValue("none", UndefinedStr, 0, UndefinedStr, UndefinedStr, <<>>)

IsNullish(err) == err.t \in {"null", "undefined"}

\* A payload of the envelope's data / error slot.
Payload(tag, str, list) == [tag |-> tag, str |-> str, list |-> list]
PNull == Payload("null", "", <<>>)
PString(m) == Payload("string", m, <<>>)
PValue(name) == Payload("value", name, <<>>)
PMessages(messages) == Payload("messages", "", messages)
PMap(entries) == Payload("map", "", entries)

Envelope(success, message, data, error) ==
    [success |-> success, message |-> message, data |-> data, error |-> error]

\* the body a handler or a project error handler writes by hand
ManualBody(name) == Envelope(FALSE, name, PValue("manual"), PNull)

DefaultStatus == 200

FreshRes == [statusCode |-> DefaultStatus, headersSent |-> FALSE,
             sent |-> <<>>, fault |-> FALSE]

\* res.status(code)
ResStatus(r, code) == [r EXCEPT !.statusCode = code]

\* res.json(body): sends the body at the current status code; fails once the
\* headers are sent
ResJson(r, body) ==
    IF r.headersSent
    THEN [r EXCEPT !.fault = TRUE]
    ELSE [r EXCEPT !.headersSent = TRUE,
                   !.sent = Append(@, [status |-> r.statusCode, body |-> body])]

\* app-response.ts
AppResponse(r, statusCode, success, data, message, error) ==
    ResJson(ResStatus(r, statusCode), Envelope(success, message, data, error))

(***************************************************************************)
(* Error handlers (error-exception.middleware.ts)                          *)
(***************************************************************************)
MsgValidation == "Erro de validacao"
MsgBadJson == "Verifique se o JSON esta correto"
MsgInternal == "Erro interno do servidor"

ErrorHandler(kind, id, matches) == [kind |-> kind, id |-> id, matches |-> matches]

ValidationHandler == ErrorHandler("validation", 0, {})
AppExceptionHandler == ErrorHandler("appException", 0, {})
ParseHandler == ErrorHandler("parse", 0, {})
CatchAllHandler == ErrorHandler("catchAll", 0, {})

\* defaultHandlers, had the catch-all been listed first
defaultHandlers_CatchAllFirst ==
    <<CatchAllHandler, ValidationHandler, AppExceptionHandler, ParseHandler>>

defaultHandlers ==
    <<ValidationHandler, AppExceptionHandler, ParseHandler, CatchAllHandler>>

ThrownTags == {"Validation", "AppException", "Error", "null", "undefined", "string"}

\* Handlers a project registers: one for the typed exception, one for anything.
ProjectHandlers ==
    {ErrorHandler("project", 1, {"AppException"}),
     ErrorHandler("project", 2, ThrownTags)}

IsProject(h) == h.kind = "project"

\* handler.canHandle(error): "true", "false", or "throw" when evaluating the
\* predicate raises a TypeError (a property read on null / undefined)
canHandle(h, err) ==
    CASE h.kind = "validation" -> IF err.t = "Validation" THEN "true" ELSE "false"
      [] h.kind = "appException" -> IF err.t = "AppException" THEN "true" ELSE "false"
      [] h.kind = "parse" ->
            IF IsNullish(err) THEN "throw"
            ELSE IF err.type = "entity.parse.failed" THEN "true" ELSE "false"
      [] h.kind = "catchAll" -> "true"
      [] OTHER -> IF err.t \in h.matches THEN "true" ELSE "false"

ProjectStatus == 500

\* handler.handle(error, req, res)
handlerHandle(h, err, r) ==
    CASE h.kind = "validation" ->
            AppResponse(r, 400, FALSE, PNull, MsgValidation, PMessages(err.messages))
      [] h.kind = "appException" ->
            AppResponse(r, err.statusCode, FALSE, PNull, err.message, PString(err.message))
      [] h.kind = "parse" ->
            AppResponse(r, 400, FALSE, PNull, MsgBadJson, PString(err.message))
      [] h.kind = "catchAll" ->
            LET message == IF IsNullish(err) \/ FalsyStr(err.message)
                           THEN MsgInternal ELSE err.message
            IN AppResponse(r, 500, FALSE, PNull, MsgInternal, PString(message))
      [] OTHER ->
            ResJson(ResStatus(r, ProjectStatus), ManualBody("project"))

NotHandled == [result |-> "none", by |-> 0, consulted |-> <<>>, invoked |-> <<>>]

\* ErrorHandlerRegistry.handle's loop from handler i on: what it returns, the
\* response object afterwards, and the handlers whose canHandle (consulted)
\* and whose handle (invoked) it has called, in order
RECURSIVE HandleFrom(_, _, _, _, _)
HandleFrom(hs, i, err, r, acc) ==
    IF i > Len(hs)
    THEN [result |-> "false", by |-> 0, consulted |-> acc.consulted,
          invoked |-> acc.invoked, res |-> r]
    ELSE LET c == canHandle(hs[i], err)
             consulted == Append(acc.consulted, i)
         IN IF c = "throw"
            THEN [result |-> "threw", by |-> i, consulted |-> consulted,
                  invoked |-> acc.invoked, res |-> r]
            ELSE IF c = "true"
                 THEN [result |-> "true", by |-> i, consulted |-> consulted,
                       invoked |-> Append(acc.invoked, i),
                       res |-> handlerHandle(hs[i], err, r)]
                 ELSE HandleFrom(hs, i + 1, err, r,
                                 [consulted |-> consulted, invoked |-> acc.invoked])

\* handle, had it given the error to the last handler that can handle it
handle_LastMatch(hs, err, r) ==
    LET matching == {i \in 1..Len(hs) : canHandle(hs[i], err) = "true"}
        last == CHOOSE i \in matching : \A j \in matching : j <= i
    IN IF matching = {}
       THEN HandleFrom(hs, 1, err, r, [consulted |-> <<>>, invoked |-> <<>>])
       ELSE [result |-> "true", by |-> last, consulted |-> [i \in 1..Len(hs) |-> i],
             invoked |-> <<last>>, res |-> handlerHandle(hs[last], err, r)]

\* ErrorHandlerRegistry.handle: the first handler whose canHandle is true
handle(hs, err, r) == HandleFrom(hs, 1, err, r, [consulted |-> <<>>, invoked |-> <<>>])

\* Bound: the longest handler chain the registry is driven to.
MaxHandlers == 6

\* Bound: the most handlers one customHandlers / registerMany array holds.
MaxCustom == 2

RECURSIVE SeqsUpTo(_, _)
SeqsUpTo(S, k) ==
    IF k = 0 THEN {<<>>}
    ELSE LET shorter == SeqsUpTo(S, k - 1)
         IN shorter \cup {Append(w, x) : w \in {y \in shorter : Len(y) = k - 1}, x \in S}

\* ErrorHandlerRegistry.register / registerMany / clear
register(hs, h) == Append(hs, h)
registerMany(hs, more) == hs \o more
clear(hs) == <<>>

ErrorMiddlewareConfigs ==
    [useDefaultHandlers : BOOLEAN,
     customHandlers : SeqsUpTo(ProjectHandlers, MaxCustom),
     exposeStackTrace : BOOLEAN]

DefaultConfig ==
    [useDefaultHandlers |-> TRUE, customHandlers |-> <<>>, exposeStackTrace |-> FALSE]

\* createErrorMiddleware(config): the registrations it performs
createErrorMiddleware(hs, config) ==
    LET withDefaults == IF config.useDefaultHandlers
                        THEN registerMany(hs, defaultHandlers)
                        ELSE hs
    IN IF Len(config.customHandlers) > 0
       THEN registerMany(withDefaults, config.customHandlers)
       ELSE withDefaults

\* the middleware createErrorMiddleware returns, with what it closes over
Middleware(config) == [exposeStackTrace |-> config.exposeStackTrace]

\* export const ErrorException = createErrorMiddleware()
ErrorException == Middleware(DefaultConfig)

\* errorMiddleware, had it left an error that no handler matched unanswered
errorMiddleware_NoFallback(mw, hs, err, r) == handle(hs, err, r)

\* the body of the returned middleware: (err, req, res, next) => ...
errorMiddleware(mw, hs, err, r) ==
    LET h == handle(hs, err, r)
    IN IF h.result = "false"
       THEN LET message ==
                    IF mw.exposeStackTrace /\ ~IsNullish(err) /\ ~FalsyStr(err.stack)
                    THEN err.stack
                    ELSE IF IsNullish(err) \/ FalsyStr(err.message)
                         THEN MsgInternal
                         ELSE err.message
            IN [h EXCEPT !.res =
                    AppResponse(r, 500, FALSE, PNull, MsgInternal, PString(message))]
       ELSE h

(***************************************************************************)
(* Request dispatcher (router-builder.ts).  What a route's handler does    *)
(* is an input: it may set the status code, may send a response by hand,   *)
(* and then returns a value, throws, or calls schema.check.                *)
(***************************************************************************)
ReturnValue(t, data, statusCode, message) ==
    [t |-> t, data |-> data, statusCode |-> statusCode, message |-> message]

RetUndefined == ReturnValue("undefined", PNull, 0, UndefinedStr)
RetPlain(data) == ReturnValue("plain", data, 0, UndefinedStr)

\* new ApiResponse(data, statusCode = 200, message?)
ApiResponse(data, statusCode, message) ==
    ReturnValue("ApiResponse", data, statusCode, message)

ok(data, message) == ApiResponse(data, 200, message)
created(data, message) == ApiResponse(data, 201, message)
noContent == ApiResponse(PNull, 204, UndefinedStr)

ReturnValues ==
    {RetUndefined, RetPlain(PValue("pong")), RetPlain(PNull), noContent}
    \cup {ok(PValue("user"), m) : m \in {UndefinedStr, "", "Listado"}}
    \cup {created(PValue("user"), m) : m \in {UndefinedStr, "Criado"}}
    \cup {ApiResponse(PValue("user"), 404, "Nao encontrado")}

ThrownValues ==
    {AppException("Conflict", 409), AppException("", 404), ParseFailed,
     PlainError("boom"), PlainError(""), ThrownNull, ThrownUndefined, ThrownString}

PSchemas ==
    { <<Entry("name", <<required>>)>>,
      <<Entry("name", <<required, requiredIn(AllowedA)>>), Entry("email", <<required>>)>> }

PInputs == [Fields -> {Undefined, Str(<<" ">>), Str(<<"a">>)}]

NoInput == [f \in Fields |-> Undefined]

Behaviour(setStatus, sends, kind, value, error, rules, input) ==
    [setStatus |-> setStatus, sends |-> sends, kind |-> kind, value |-> value,
     error |-> error, rules |-> rules, input |-> input]

NoBehaviour == Behaviour(0, FALSE, "none", RetUndefined, NoThrown, <<>>, NoInput)

Behaviours ==
    {Behaviour(st, sd, "return", v, NoThrown, <<>>, NoInput) :
        st \in {0, 201}, sd \in BOOLEAN, v \in ReturnValues}
    \cup {Behaviour(st, sd, k, RetUndefined, e, <<>>, NoInput) :
        st \in {0, 201}, sd \in BOOLEAN, k \in {"throw", "reject"}, e \in ThrownValues}
    \cup {Behaviour(st, sd, "check", RetPlain(PValue("saved")), NoThrown, rules, i) :
        st \in {0, 201}, sd \in BOOLEAN, rules \in PSchemas, i \in PInputs}

\* The handler's own effect on the response object.
HandlerEffect(beh, r) ==
    LET r0 == IF beh.setStatus # 0 THEN ResStatus(r, beh.setStatus) ELSE r
    IN IF beh.sends THEN ResJson(ResStatus(r0, 202), ManualBody("handler")) ELSE r0

\* What `await route.handler.call(...)` settles to: a returned value or a
\* thrown one, the handler having thrown or returned a promise that rejects.
HandlerOutcome(beh) ==
    IF beh.kind \in {"throw", "reject"} THEN [threw |-> TRUE, value |-> RetUndefined, error |-> beh.error]
    ELSE IF beh.kind = "check" /\ check(beh.input, beh.rules).thrown
         THEN [threw |-> TRUE, value |-> RetUndefined,
               error |-> ValidationError(check(beh.input, beh.rules).messages)]
         ELSE [threw |-> FALSE, value |-> beh.value, error |-> NoThrown]

\* SendApiResponse, had it left out res.status(result.statusCode)
SendApiResponse_NoStatus(r, result) ==
    ResJson(r, Envelope(TRUE, IF FalsyStr(result.message) THEN NullStr ELSE result.message,
                        result.data, PNull))

\* res.status(result.statusCode).json({success: true, message: result.message || null, ...})
SendApiResponse(r, result) ==
    ResJson(ResStatus(r, result.statusCode),
            Envelope(TRUE, IF FalsyStr(result.message) THEN NullStr ELSE result.message,
                     result.data, PNull))

\* SendPlain, had it sent the envelope without the returned value
SendPlain_NoData(r, result) ==
    ResJson(r, Envelope(TRUE, NullStr, PNull, PNull))

\* res.json({success: true, message: null, data: result, error: null})
SendPlain(r, result) ==
    ResJson(r, Envelope(TRUE, NullStr, result.data, PNull))

\* wrappedHandler, had it formatted the returned value without looking at
\* res.headersSent
wrappedHandler_IgnoresHeadersSent(beh, r) ==
    LET r1 == HandlerEffect(beh, r)
        out == HandlerOutcome(beh)
    IN IF out.threw THEN [res |-> r1, next |-> out.error, nexts |-> <<out.error>>]
       ELSE IF out.value.t # "undefined"
            THEN IF out.value.t = "ApiResponse"
                 THEN [res |-> SendApiResponse(r1, out.value), next |-> NoThrown,
                       nexts |-> <<>>]
                 ELSE [res |-> SendPlain(r1, out.value), next |-> NoThrown, nexts |-> <<>>]
            ELSE [res |-> r1, next |-> NoThrown, nexts |-> <<>>]

\* wrappedHandler, had the catch block answered the request itself before
\* passing the error on
wrappedHandler_AnswersItself(beh, r) ==
    LET r1 == HandlerEffect(beh, r)
        out == HandlerOutcome(beh)
    IN IF out.threw
       THEN [res |-> ResJson(ResStatus(r1, 500), Envelope(FALSE, MsgInternal, PNull, PNull)),
             next |-> out.error, nexts |-> <<out.error>>]
       ELSE IF r1.headersSent THEN [res |-> r1, next |-> NoThrown, nexts |-> <<>>]
       ELSE IF out.value.t # "undefined"
            THEN IF out.value.t = "ApiResponse"
                 THEN [res |-> SendApiResponse(r1, out.value), next |-> NoThrown,
                       nexts |-> <<>>]
                 ELSE [res |-> SendPlain(r1, out.value), next |-> NoThrown, nexts |-> <<>>]
            ELSE [res |-> r1, next |-> NoThrown, nexts |-> <<>>]

\* wrappedHandler: the response object afterwards, the error given to next
\* (NoThrown when next is not called) and every call of next in order
wrappedHandler(beh, r) ==
    LET r1 == HandlerEffect(beh, r)
        out == HandlerOutcome(beh)
    IN IF out.threw THEN [res |-> r1, next |-> out.error, nexts |-> <<out.error>>]
       ELSE IF r1.headersSent THEN [res |-> r1, next |-> NoThrown, nexts |-> <<>>]
       ELSE IF out.value.t # "undefined"
            THEN IF out.value.t = "ApiResponse"
                 THEN [res |-> SendApiResponse(r1, out.value), next |-> NoThrown,
                       nexts |-> <<>>]
                 ELSE [res |-> SendPlain(r1, out.value), next |-> NoThrown, nexts |-> <<>>]
            ELSE [res |-> r1, next |-> NoThrown, nexts |-> <<>>]

(***************************************************************************)
(* SpecP: the registry operations and one request at a time                *)
(***************************************************************************)
vIdle ==
    /\ vSchema = <<>>
    /\ vInput = NoInput
    /\ vPc = "off"
    /\ vOut = NoOutcome
    /\ vExt = <<>>
    /\ vPick = NoPick

sIdle ==
    /\ insts = <<>>
    /\ ctxStore = <<>>
    /\ lastOp = "none"
    /\ lastCall = "none"

InitP ==
    /\ handlers = createErrorMiddleware(<<>>, DefaultConfig)
    /\ errorMw = ErrorException
    /\ mwCreated = {ErrorException}
    /\ pc = "idle"
    /\ reqErr = NoThrown
    /\ res = FreshRes
    /\ handled = NotHandled
    /\ reqBeh = NoBehaviour
    /\ vIdle
    /\ sIdle
    /\ rIdle
    /\ cIdle
    /\ lIdle

Register(h) ==
    /\ pc = "idle"
    /\ Len(handlers) < MaxHandlers
    /\ handlers' = register(handlers, h)
    /\ UNCHANGED <<errorMw, mwCreated, pc, reqErr, res, handled, reqBeh, vVars, sVars, xVars>>

RegisterMany(hs) ==
    /\ pc = "idle"
    /\ Len(hs) > 1
    /\ Len(handlers) + Len(hs) <= MaxHandlers
    /\ handlers' = registerMany(handlers, hs)
    /\ UNCHANGED <<errorMw, mwCreated, pc, reqErr, res, handled, reqBeh, vVars, sVars, xVars>>

Clear ==
    /\ pc = "idle"
    /\ handlers # <<>>
    /\ handlers' = clear(handlers)
    /\ UNCHANGED <<errorMw, mwCreated, pc, reqErr, res, handled, reqBeh, vVars, sVars, xVars>>

CreateErrorMiddleware(config) ==
    /\ pc = "idle"
    /\ Len(createErrorMiddleware(handlers, config)) <= MaxHandlers
    /\ handlers' = createErrorMiddleware(handlers, config)
    /\ mwCreated' = mwCreated \cup {Middleware(config)}
    /\ UNCHANGED <<errorMw, pc, reqErr, res, handled, reqBeh, vVars, sVars, xVars>>

\* Application.configureMiddlewares({errorMiddleware}) followed by setupRoutes
ConfigureMiddlewares(mw) ==
    /\ pc = "idle"
    /\ mw # errorMw
    /\ errorMw' = mw
    /\ UNCHANGED <<handlers, mwCreated, pc, reqErr, res, handled, reqBeh, vVars, sVars, xVars>>

WrappedHandler(beh) ==
    /\ pc = "idle"
    /\ reqBeh = NoBehaviour
    /\ LET w == wrappedHandler(beh, res)
       IN /\ res' = w.res
          /\ reqErr' = w.next
          /\ pc' = IF w.next # NoThrown THEN "error" ELSE "done"
    /\ reqBeh' = beh
    /\ UNCHANGED <<handlers, errorMw, mwCreated, handled, vVars, sVars, xVars>>

ErrorMiddleware ==
    /\ pc = "error"
    /\ LET m == errorMiddleware(errorMw, handlers, reqErr, res)
       IN /\ res' = m.res
          /\ handled' = [result |-> m.result, by |-> m.by,
                          consulted |-> m.consulted, invoked |-> m.invoked]
          /\ pc' = IF m.result = "threw" \/ m.res.fault THEN "crashed" ELSE "done"
    /\ UNCHANGED <<handlers, errorMw, mwCreated, reqErr, reqBeh, vVars, sVars, xVars>>

NewRequest ==
    /\ pc \in {"done", "crashed"}
    /\ pc' = "idle"
    /\ res' = FreshRes
    /\ reqErr' = NoThrown
    /\ handled' = NotHandled
    /\ reqBeh' = NoBehaviour
    /\ UNCHANGED <<handlers, errorMw, mwCreated, vVars, sVars, xVars>>

NextP ==
    \/ \E h \in ProjectHandlers : Register(h)
    \/ \E hs \in SeqsUpTo(ProjectHandlers, MaxCustom) : RegisterMany(hs)
    \/ Clear
    \/ \E config \in ErrorMiddlewareConfigs : CreateErrorMiddleware(config)
    \/ \E mw \in mwCreated : ConfigureMiddlewares(mw)
    \/ \E beh \in Behaviours : WrappedHandler(beh)
    \/ ErrorMiddleware
    \/ NewRequest

SpecP == InitP /\ [][NextP]_vars

\* SpecP with the terminal error middleware run whenever next(error) has
\* been called: it is installed last on the app, after every route
SpecL == SpecP /\ WF_vars(ErrorMiddleware)

(***************************************************************************)
(* SpecV: schema(vSchema).check(vInput) for every schema and input of the  *)
(* bounded sets                                                            *)
(***************************************************************************)
pIdle ==
    /\ handlers = createErrorMiddleware(<<>>, DefaultConfig)
    /\ errorMw = ErrorException
    /\ mwCreated = {ErrorException}
    /\ pc = "off"
    /\ reqErr = NoThrown
    /\ res = FreshRes
    /\ handled = NotHandled
    /\ reqBeh = NoBehaviour

InitV ==
    /\ vSchema \in Schemas
    /\ vInput \in Inputs
    /\ vPc = "init"
    /\ vOut = NoOutcome
    /\ vExt = <<>>
    /\ vPick = NoPick
    /\ pIdle
    /\ sIdle
    /\ rIdle
    /\ cIdle
    /\ lIdle

\* schema(vSchema).check(vInput)
Check ==
    /\ vOut' = check(vInput, vSchema)
    /\ vPick' = NoPick
    /\ vPc' = "checked"
    /\ UNCHANGED <<vSchema, vInput, vExt, pVars, sVars, xVars>>

\* schema(vSchema).pick(vInput)
Pick ==
    /\ vPick' = pick(vInput, vSchema)
    /\ vOut' = NoOutcome
    /\ vPc' = "picked"
    /\ UNCHANGED <<vSchema, vInput, vExt, pVars, sVars, xVars>>

\* schema(vSchema).extend(extraRules)
Extend(extraRules) ==
    /\ vSchema' = extend(vSchema, extraRules).rules
    /\ vExt' = extend(vSchema, extraRules).schema
    /\ vOut' = NoOutcome
    /\ vPick' = NoPick
    /\ vPc' = "extended"
    /\ UNCHANGED <<vInput, pVars, sVars, xVars>>

\* check(vInput) on the schema extend returned
CheckExtended ==
    /\ vExt # <<>>
    /\ vOut' = check(vInput, vExt)
    /\ vPick' = NoPick
    /\ vPc' = "checkedExtended"
    /\ UNCHANGED <<vSchema, vInput, vExt, pVars, sVars, xVars>>

\* pick(vInput) on the schema extend returned
PickExtended ==
    /\ vExt # <<>>
    /\ vPick' = pick(vInput, vExt)
    /\ vOut' = NoOutcome
    /\ vPc' = "pickedExtended"
    /\ UNCHANGED <<vSchema, vInput, vExt, pVars, sVars, xVars>>

\* extend(extraRules) on the schema extend returned; vExt goes on to the
\* schema this call returns
ExtendExtended(extraRules) ==
    /\ vExt # <<>>
    /\ vExt' = extend(vExt, extraRules).schema
    /\ vOut' = NoOutcome
    /\ vPick' = NoPick
    /\ vPc' = "extendedExtended"
    /\ UNCHANGED <<vSchema, vInput, pVars, sVars, xVars>>

NextV ==
    \/ Check
    \/ Pick
    \/ \E extraRules \in ExtraRules : Extend(extraRules)
    \/ CheckExtended
    \/ PickExtended
    \/ \E extraRules \in ExtraRules : ExtendExtended(extraRules)

SpecV == InitV /\ [][NextV]_vars

(***************************************************************************)
(* Properties of the validation engine                                     *)
(***************************************************************************)
\* The specification's notion of an empty value: absent, null, or an empty
\* or whitespace-only string.
IsEmptyValue(v) ==
    \/ v = Undefined
    \/ v = Null
    \/ (v.t = "string" /\ Trim(v.s) = <<>>)

HasRule(entry, kind) == \E i \in 1..Len(entry.rules) : entry.rules[i].kind = kind

\* A message that f's required rule accounts for, whether or not it is keyed.
IsEntryFor(msg, f) ==
    /\ msg.message = MsgRequired
    /\ msg.field \in {f, NoField}

\* C1: when field f carries required() and the input's f is absent, null, an
\* empty string or a whitespace-only string, check raises a ValidationResult
\* that has an entry for f and is not valid.
C1_RequiredRejectsEmpty ==
    vPc = "checked" =>
        \A k \in 1..Len(vSchema) :
            (HasRule(vSchema[k], "required") /\ IsEmptyValue(vInput[vSchema[k].field])) =>
                /\ vOut.thrown
                /\ ~isValid(vOut.messages)
                /\ \E m \in 1..Len(vOut.messages) :
                        IsEntryFor(vOut.messages[m], vSchema[k].field)

FailingCalls(calls, f) ==
    {a \in 1..Len(calls) : calls[a].field = f /\ IsError(calls[a].result)}

\* C2: the rules of a field run in declaration order and stop at the first
\* one that returns an error: no rule of the field is invoked after a failing
\* one, and a failing field contributes exactly one message.
C2_ShortCircuit ==
    vPc = "checked" =>
        /\ \A a, b \in 1..Len(vOut.calls) :
                (a < b /\ vOut.calls[a].field = vOut.calls[b].field) =>
                    ~IsError(vOut.calls[a].result)
        /\ \A k \in 1..Len(vSchema) :
                Cardinality(FailingCalls(vOut.calls, vSchema[k].field)) <= 1
        /\ Len(vOut.messages) =
                Cardinality({k \in 1..Len(vSchema) :
                                FailingCalls(vOut.calls, vSchema[k].field) # {}})

\* The rule map the last call was made on.
CalledRules == IF vPc \in {"checkedExtended", "pickedExtended"} THEN vExt ELSE vSchema

Picked == vPc \in {"picked", "pickedExtended"}

DeclaredFields(rules) == {rules[k].field : k \in 1..Len(rules)}

HasKey(record, f) == \E i \in 1..Len(record) : record[i].key = f

ValueOf(record, f) == record[CHOOSE i \in 1..Len(record) : record[i].key = f].value

\* C12: the record pick returns has no key outside the schema's rule map,
\* even when the input has such keys (and it has no key twice).
C12_PickOnlyDeclaredKeys ==
    Picked =>
        /\ \A i \in 1..Len(vPick) : vPick[i].key \in DeclaredFields(CalledRules)
        /\ \A i, j \in 1..Len(vPick) : vPick[i].key = vPick[j].key => i = j

C12_Witness ==
    /\ vPc = "picked"
    /\ DeclaredFields(vSchema) = {"name"}
    /\ vInput["email"] = Str(<<"a">>)
    /\ vPick = <<Property("name", Str(<<"a", "a">>))>>

\* the value default_value(v) was given, for an entry that carries the rule
DefaultOf(entry) ==
    entry.rules[CHOOSE i \in 1..Len(entry.rules) : entry.rules[i].kind = "default_value"]
        .defaultValue

\* C13: for a field carrying default_value(v), pick yields the field = v when
\* the input does not supply it, and the input's own value when the input
\* supplies a non-empty one.
C13_DefaultFillsInputWins ==
    Picked =>
        \A k \in 1..Len(CalledRules) :
            LET entry == CalledRules[k]
                f == entry.field
            IN HasRule(entry, "default_value") =>
                /\ vInput[f] = Undefined =>
                        HasKey(vPick, f) /\ ValueOf(vPick, f) = DefaultOf(entry)
                /\ ~IsEmptyValue(vInput[f]) =>
                        HasKey(vPick, f) /\ ValueOf(vPick, f) = vInput[f]

C13_Witness ==
    /\ vPc = "picked"
    /\ vSchema = <<Entry("name", <<required>>), Entry("email", <<required, default_value(Num(0))>>)>>
    /\ vInput["name"] = Bool(FALSE)
    /\ vInput["email"] = Undefined
    /\ vPick = <<Property("name", Bool(FALSE)), Property("email", Num(0))>>

\* The first error among the results of applying the rules in order.
FirstError(rules, value) ==
    LET failing == {i \in 1..Len(rules) : SimpleApply(rules[i], value) \notin {NoError, ""}}
    IN IF failing = {} THEN [error |-> NoError, last |-> Len(rules)]
       ELSE LET first == CHOOSE i \in failing : \A j \in failing : i <= j
            IN [error |-> SimpleApply(rules[first], value), last |-> first]

OptionalButAgrees(rule, value) ==
    LET run == OptionalButRun(rule, value)
    IN IF IsEmptyValue(value)
       THEN run.error = NoError /\ run.invoked = <<>>
       ELSE /\ run.error = FirstError(rule.inner, value).error
            /\ run.invoked = [i \in 1..FirstError(rule.inner, value).last |-> i]

RulesOf(rules, f) ==
    IF f \in DeclaredFields(rules)
    THEN rules[CHOOSE k \in 1..Len(rules) : rules[k].field = f].rules
    ELSE <<>>

\* m is the right-biased union of the rule maps a and b
IsRightBiasedUnion(m, a, b) ==
    /\ DeclaredFields(m) = DeclaredFields(a) \cup DeclaredFields(b)
    /\ Len(m) = Cardinality(DeclaredFields(m))
    /\ \A f \in DeclaredFields(m) :
            RulesOf(m, f) = IF f \in DeclaredFields(b) THEN RulesOf(b, f) ELSE RulesOf(a, f)

\* C15: schema(A).extend(B) returns a new schema whose rule map is the
\* right-biased union of A and B, and schema(A) keeps the rule map A: no call
\* (extend, or any call on the extended schema) changes it, so check and pick
\* on the original give the same results before and after.
C15_ExtendLeavesOriginal ==
    [][/\ vSchema' = vSchema
       /\ vPc' \in {"extended", "extendedExtended"} =>
                /\ check(vInput', vSchema') = check(vInput, vSchema)
                /\ pick(vInput', vSchema') = pick(vInput, vSchema)
       /\ vPc' = "extended" =>
                \E extraRules \in ExtraRules :
                    IsRightBiasedUnion(vExt', vSchema, extraRules)
       /\ vPc' = "extendedExtended" =>
                \E extraRules \in ExtraRules :
                    IsRightBiasedUnion(vExt', vExt, extraRules)
       /\ vPc' = "checked" => vOut' = check(vInput, vSchema)
       /\ vPc' = "picked" => vPick' = pick(vInput, vSchema)
    ]_vars

C15_Witness ==
    /\ vPc = "checked"
    /\ DeclaredFields(vSchema) = {"email"}
    /\ vSchema[1].rules = <<minLength(2), requiredIn(AllowedA)>>
    /\ DeclaredFields(vExt) = {"name", "email"}
    /\ RulesOf(vExt, "email") = <<required>>
    /\ vOut.thrown

\* C19: validate inspects only the declared fields, and every message it
\* accumulates is keyed by the declared field whose rule produced it.
C19_MessagesKeyedByField ==
    vPc \in {"checked", "checkedExtended"} =>
        /\ \A c \in 1..Len(vOut.calls) :
                vOut.calls[c].field \in DeclaredFields(CalledRules)
        /\ \A m \in 1..Len(vOut.messages) :
                /\ vOut.messages[m].field \in DeclaredFields(CalledRules)
                /\ \E c \in 1..Len(vOut.calls) :
                        /\ vOut.calls[c].field = vOut.messages[m].field
                        /\ vOut.calls[c].result = vOut.messages[m].message

\* C20: sanitize treats a declared field whose value is absent, null, an
\* empty string or a whitespace-only string as not supplied (the default if a
\* rule carries one, else the field is omitted) and copies every other value,
\* 0 and false included, through unchanged.
C20_SanitizeEmptiness ==
    Picked =>
        \A k \in 1..Len(CalledRules) :
            LET entry == CalledRules[k]
                f == entry.field
            IN IF IsEmptyValue(vInput[f])
               THEN IF HasRule(entry, "default_value")
                    THEN HasKey(vPick, f) /\ ValueOf(vPick, f) = DefaultOf(entry)
                    ELSE ~HasKey(vPick, f)
               ELSE HasKey(vPick, f) /\ ValueOf(vPick, f) = vInput[f]

\* what each place that decides emptiness says of the value of field f
RequiredSaysEmpty(f) == RequiredFn(required, vInput[f]) # NoError

RequiredIfSaysEmpty(f) == RequiredIfFn(requiredIf("always"), vInput[f], vInput) # NoError

RequiredWhenSaysEmpty(f) ==
    LET sibling == CHOOSE g \in Fields : g # f
        input == [vInput EXCEPT ![sibling] = Str(<<"a">>)]
    IN RequiredWhenFn(requiredWhen(sibling, AllowedA), input[f], input) # NoError

SanitizeSaysEmpty(f) == ~HasKey(sanitize(vInput, <<Entry(f, <<optional>>)>>), f)

\* C21: emptiness is decided uniformly: required, requiredIf (with a true
\* predicate), requiredWhen (with a matching sibling), optionalBut and
\* sanitize all agree on whether a value is empty, and it is empty exactly
\* when it is absent, null, or an empty or whitespace-only string.
C21_UniformEmptiness ==
    \A f \in Fields :
        /\ RequiredSaysEmpty(f) <=> IsEmptyValue(vInput[f])
        /\ RequiredIfSaysEmpty(f) <=> IsEmptyValue(vInput[f])
        /\ RequiredWhenSaysEmpty(f) <=> IsEmptyValue(vInput[f])
        /\ OptionalButIsEmpty(vInput[f]) <=> IsEmptyValue(vInput[f])
        /\ SanitizeSaysEmpty(f) <=> IsEmptyValue(vInput[f])

(***************************************************************************)
(* Properties of the request pipeline                                      *)
(***************************************************************************)
\* The framework's default handlers are registered and no handler ahead of
\* them claims the error: the default chain decides the response.
DefaultChainDecides(hs, err) ==
    \E k \in 1..Len(hs) :
        /\ k + Len(defaultHandlers) - 1 <= Len(hs)
        /\ SubSeq(hs, k, k + Len(defaultHandlers) - 1) = defaultHandlers
        /\ \A i \in 1..(k - 1) : canHandle(hs[i], err) = "false"

DefaultsEnabled(hs) ==
    \E k \in 1..Len(hs) :
        /\ k + Len(defaultHandlers) - 1 <= Len(hs)
        /\ SubSeq(hs, k, k + Len(defaultHandlers) - 1) = defaultHandlers

\* The request is over: the dispatcher and, after a throw, the error
\* middleware have run.
Settled == pc \in {"done", "crashed"}

\* field -> message for every declared field one of whose rules fails
RECURSIVE FailingFieldMap(_, _, _)
FailingFieldMap(rules, k, input) ==
    IF k > Len(rules) THEN <<>>
    ELSE LET entry == rules[k]
             failing == {i \in 1..Len(entry.rules) :
                            IsError(RuleApply(entry.rules[i], input[entry.field], input))}
             first == CHOOSE i \in failing : \A j \in failing : i <= j
             rest == FailingFieldMap(rules, k + 1, input)
         IN IF failing = {} THEN rest
            ELSE <<[key |-> entry.field,
                    message |-> RuleApply(entry.rules[first], input[entry.field], input)]>>
                 \o rest

\* C3: a handler that raises the ValidationResult of schema.check gets HTTP
\* 400 and an envelope whose error payload maps each failing field name to
\* its message.
C3_ValidationFieldMap ==
    (/\ Settled
     /\ reqBeh.kind = "check"
     /\ reqErr.t = "Validation"
     /\ ~reqBeh.sends
     /\ DefaultChainDecides(handlers, reqErr)) =>
        /\ Len(res.sent) = 1
        /\ res.sent[1].status = 400
        /\ res.sent[1].body.error.tag = "map"
        /\ res.sent[1].body.error =
                PMap(FailingFieldMap(reqBeh.rules, 1, reqBeh.input))

\* C4: with the default handlers enabled every project-registered handler
\* sits before every default handler in the chain, and an error that a
\* project handler matches is handled by a project handler.
C4_ProjectHandlersFirst ==
    /\ \A i, j \in 1..Len(handlers) :
            (IsProject(handlers[i]) /\ ~IsProject(handlers[j])) => i < j
    /\ (/\ Settled
        /\ handled.result = "true"
        /\ \E i \in 1..Len(handlers) :
                IsProject(handlers[i]) /\ canHandle(handlers[i], reqErr) = "true") =>
            IsProject(handlers[handled.by])

\* C5: with the default handlers enabled, handle returns true for every
\* thrown value, null and undefined included.
C5_HandleAlwaysTrue ==
    (/\ Settled
     /\ reqErr # NoThrown
     /\ DefaultsEnabled(handlers)) =>
        handled.result = "true"

ReturnedPlain ==
    /\ pc = "done"
    /\ ~HandlerOutcome(reqBeh).threw
    /\ HandlerOutcome(reqBeh).value.t = "plain"
    /\ ~reqBeh.sends

\* C8 as stated: a handler that returns a defined value that is no
\* ApiResponse, without having sent a response, gets exactly one response, of
\* status 200 and body {success: true, message: null, data: v, error: null}.
C8_PlainValueStatus200 ==
    ReturnedPlain =>
        res.sent = <<[status |-> 200,
                      body |-> Envelope(TRUE, NullStr, HandlerOutcome(reqBeh).value.data, PNull)]>>

\* C8 amended: the one response carries that body at the response's current
\* status code, which is 200 unless the handler set another one before it
\* returned.
C8_PlainValueCurrentStatus ==
    ReturnedPlain =>
        res.sent = <<[status |-> IF reqBeh.setStatus # 0 THEN reqBeh.setStatus ELSE 200,
                      body |-> Envelope(TRUE, NullStr, HandlerOutcome(reqBeh).value.data, PNull)]>>

C8_Witness ==
    /\ ReturnedPlain
    /\ reqBeh.setStatus = 0
    /\ Len(res.sent) = 1
    /\ res.sent[1].body.data = PValue("pong")

ReturnedApiResponse ==
    /\ pc = "done"
    /\ ~HandlerOutcome(reqBeh).threw
    /\ HandlerOutcome(reqBeh).value.t = "ApiResponse"
    /\ ~reqBeh.sends

\* C9 as stated: a returned ApiResponse(data, statusCode, message) is emitted
\* as {success: true, message, data, error: null} at that status code, the
\* message being null when none was given.
C9_ApiResponseMessageKept ==
    ReturnedApiResponse =>
        LET v == HandlerOutcome(reqBeh).value
        IN res.sent = <<[status |-> v.statusCode,
                         body |-> Envelope(TRUE,
                                           IF v.message = UndefinedStr THEN NullStr
                                           ELSE v.message,
                                           v.data, PNull)]>>

\* C9 amended: the message is null when none or an empty one was given.
C9_ApiResponseEnvelope ==
    ReturnedApiResponse =>
        LET v == HandlerOutcome(reqBeh).value
        IN res.sent = <<[status |-> v.statusCode,
                         body |-> Envelope(TRUE,
                                           IF v.message \in {UndefinedStr, ""} THEN NullStr
                                           ELSE v.message,
                                           v.data, PNull)]>>

C9_Witness ==
    /\ ReturnedApiResponse
    /\ reqBeh.setStatus = 201
    /\ Len(res.sent) = 1
    /\ res.sent[1].status = 404
    /\ res.sent[1].body.message = "Nao encontrado"

\* C10: a thrown AppException with status code c and message m is answered
\* with HTTP status c and an envelope with success false whose message and
\* error are both m (the default handler chain deciding, and the handler not
\* having sent a response itself).
C10_AppExceptionResponse ==
    (/\ Settled
     /\ reqErr.t = "AppException"
     /\ ~reqBeh.sends
     /\ DefaultChainDecides(handlers, reqErr)) =>
        /\ pc = "done"
        /\ Len(res.sent) = 1
        /\ res.sent[1].status = reqErr.statusCode
        /\ res.sent[1].body.success = FALSE
        /\ res.sent[1].body.message = reqErr.message
        /\ res.sent[1].body.error = PString(reqErr.message)

C10_Witness ==
    /\ pc = "done"
    /\ reqErr = AppException("Conflict", 409)
    /\ \E i \in 1..Len(handlers) : IsProject(handlers[i])
    /\ Len(res.sent) = 1
    /\ res.sent[1].status = 409
    /\ res.sent[1].body.error = PString("Conflict")

\* C11: every value a handler throws, synchronously or through a rejected
\* awaited result, is passed by the dispatcher to next, the same value and
\* exactly once, and the dispatcher sends no response of its own: when next is
\* called the response object is as the handler left it.
C11_ThrownForwardedUntouched ==
    (reqBeh # NoBehaviour /\ HandlerOutcome(reqBeh).threw) =>
        /\ pc # "idle"
        /\ reqErr = HandlerOutcome(reqBeh).error
        /\ reqErr # NoThrown
        /\ wrappedHandler(reqBeh, FreshRes).nexts = <<HandlerOutcome(reqBeh).error>>
        /\ wrappedHandler(reqBeh, FreshRes).res = HandlerEffect(reqBeh, FreshRes)
        /\ pc = "error" =>
                /\ res = HandlerEffect(reqBeh, FreshRes)
                /\ Len(res.sent) = IF reqBeh.sends THEN 1 ELSE 0

C11_Witness ==
    /\ pc = "error"
    /\ reqBeh.kind = "reject"
    /\ reqErr = PlainError("boom")
    /\ res.sent = <<>>

\* The request is over: nothing more runs for it.
RequestOver == pc \in {"done", "crashed"}

\* a body that has the {success, message, data, error} shape, as opposed to
\* one written by hand
IsEnvelopeBody(body) == body.data # PValue("manual")

OneEnvelopeSent ==
    /\ Len(res.sent) = 1
    /\ IsEnvelopeBody(res.sent[1].body)
    /\ ~res.fault

\* C16: every dispatched request whose handler settles (returns any value or
\* throws any value) eventually gets exactly one response, carrying the
\* envelope: the request always comes to its end, and at its end exactly one
\* envelope has been sent.
C16_EveryRequestAnswered ==
    /\ [](pc = "error" => <>RequestOver)
    /\ [](RequestOver => OneEnvelopeSent)

\* C17: handle tries the handlers strictly in registration order and invokes
\* the handle of exactly one handler, the first whose canHandle returns true;
\* no later handler is consulted or invoked, and it returns true iff some
\* handler's canHandle returned true.
C17_FirstMatchOnly ==
    (RequestOver /\ handled.result # "none") =>
        /\ handled.consulted = [i \in 1..Len(handled.consulted) |-> i]
        /\ Len(handled.consulted) <= Len(handlers)
        /\ Len(handled.invoked) <= 1
        /\ \A i \in 1..Len(handled.consulted) :
                canHandle(handlers[i], reqErr) = "true" =>
                    /\ i = Len(handled.consulted)
                    /\ handled.invoked = <<i>>
        /\ handled.result = "true" <=>
                \E i \in 1..Len(handled.consulted) : canHandle(handlers[i], reqErr) = "true"
        /\ handled.result = "true" => handled.invoked = <<handled.by>>
        /\ handled.result = "false" =>
                /\ handled.invoked = <<>>
                /\ Len(handled.consulted) = Len(handlers)
                /\ \A i \in 1..Len(handlers) : canHandle(handlers[i], reqErr) = "false"
        /\ (handled.invoked = <<>> /\ ~reqBeh.sends) =>
                (handled.result = "false" \/ res.sent = <<>>)

C17_Witness ==
    /\ pc = "done"
    /\ handled.result = "true"
    /\ handled.by = 2
    /\ handled.consulted = <<1, 2>>
    /\ handled.invoked = <<2>>
    /\ Len(handlers) >= 3
    /\ canHandle(handlers[3], reqErr) = "true"

Unmatched ==
    /\ RequestOver
    /\ handled.result = "false"
    /\ ~reqBeh.sends

\* the error's message, or the generic string when it has none
MessageOrGeneric(err) ==
    IF IsNullish(err) \/ err.message \in {UndefinedStr, NullStr, ""}
    THEN MsgInternal ELSE err.message

\* C18 as stated: when no registered handler matches, the terminal middleware
\* itself emits HTTP 500 with the envelope, its error being the error's
\* message or the generic fallback string.
C18_FallbackMessageOrGeneric ==
    Unmatched =>
        res.sent = <<[status |-> 500,
                      body |-> Envelope(FALSE, MsgInternal, PNull,
                                        PString(MessageOrGeneric(reqErr)))]>>

\* C18 amended: the envelope's error is the error's stack trace when the
\* middleware was created with exposeStackTrace and the error has one, and
\* the error's message or the generic string otherwise.
C18_FallbackEnvelope ==
    Unmatched =>
        res.sent = <<[status |-> 500,
                      body |-> Envelope(FALSE, MsgInternal, PNull,
                                PString(IF /\ errorMw.exposeStackTrace
                                           /\ ~IsNullish(reqErr)
                                           /\ reqErr.stack \notin {UndefinedStr, NullStr, ""}
                                        THEN reqErr.stack
                                        ELSE MessageOrGeneric(reqErr)))]>>

C18_Witness ==
    /\ Unmatched
    /\ handlers # <<>>
    /\ reqErr = PlainError("boom")
    /\ ~errorMw.exposeStackTrace
    /\ Len(res.sent) = 1
    /\ res.sent[1].status = 500
    /\ res.sent[1].body.error = PString("boom")

(***************************************************************************)
(* Service configuration wrapper (base-service.ts).  insts holds every     *)
(* instance, the clones createProxy makes included; an instance refers to  *)
(* its context map by its position in ctxStore, so that two instances can  *)
(* share one map.  A reference is an instance together with whether it is  *)
(* reached through the Proxy: the service constructed first is reached     *)
(* directly, a clone through the Proxy createProxy returned, and the       *)
(* reference the last operation returned is at hand for chaining.          *)
(***************************************************************************)
\* Bound: the most instances (clones included) a run creates.
MaxInsts == 3

\* Bound: the most context maps a run creates.
MaxCtx == 2

NoTransaction == "<undefined>"
Transactions == {"tx1"}

ContextKeys == {"tenant"}
Absent == "<absent>"
ContextValues == {"a"}
ContextMaps == [ContextKeys -> ContextValues \cup {Absent}]
EmptyContext == [k \in ContextKeys |-> Absent]

\* { ...a, ...b }
Spread(a, b) == [k \in ContextKeys |-> IF b[k] # Absent THEN b[k] ELSE a[k]]

Instance(throwOnError, transaction, ctx) ==
    [throwOnError |-> throwOnError, transaction |-> transaction, ctx |-> ctx]

Ref(i, proxied) == [inst |-> i, proxied |-> proxied]
NoRef == Ref(0, FALSE)

\* A ServiceConfig.  hasThrowOnError / hasContext tell whether the member is
\* given (not undefined); a transaction that is not given is NoTransaction.
Config(hasT, t, tx, hasC, c) ==
    [hasThrowOnError |-> hasT, throwOnError |-> t, transaction |-> tx,
     hasContext |-> hasC, context |-> c]

\* The configs configure is driven with: one member each, and all at once.
ServiceConfigs ==
    {Config(TRUE, t, NoTransaction, FALSE, EmptyContext) : t \in BOOLEAN}
    \cup {Config(FALSE, FALSE, tx, FALSE, EmptyContext) : tx \in Transactions}
    \cup {Config(FALSE, FALSE, NoTransaction, TRUE, c) : c \in ContextMaps}

\* The state a service operation leaves: the instances, the context maps and
\* the reference it returns.
Heap(is, cs, out) == [insts |-> is, ctxStore |-> cs, out |-> out]

\* new Service(): throwOnError = true, no transaction, context = {}
construct(is, cs) ==
    Heap(Append(is, Instance(TRUE, NoTransaction, Len(cs) + 1)),
         Append(cs, EmptyContext),
         Ref(Len(is) + 1, FALSE))

\* configure(config) on instance i: mutates it in place and returns `this`,
\* the instance itself
configure(is, cs, i, config) ==
    LET this == is[i]
        newCtx == config.hasContext
        updated == [this EXCEPT
                       !.throwOnError = IF config.hasThrowOnError
                                        THEN config.throwOnError ELSE @,
                       !.transaction = IF config.transaction # NoTransaction
                                       THEN config.transaction ELSE @,
                       !.ctx = IF newCtx THEN Len(cs) + 1 ELSE @]
    IN Heap([is EXCEPT ![i] = updated],
            IF newCtx THEN Append(cs, Spread(cs[this.ctx], config.context)) ELSE cs,
            Ref(i, FALSE))

\* createProxy, had it applied the config to `this` before cloning it
createProxy_InPlace(is, cs, i, config) ==
    LET this == is[i]
        newCtx == config.hasContext
        instance == [this EXCEPT
                       !.throwOnError = IF config.hasThrowOnError
                                        THEN config.throwOnError ELSE @,
                       !.transaction = IF config.transaction # NoTransaction
                                       THEN config.transaction ELSE @,
                       !.ctx = IF newCtx THEN Len(cs) + 1 ELSE @]
    IN Heap(Append([is EXCEPT ![i] = instance], instance),
            IF newCtx THEN Append(cs, Spread(cs[this.ctx], config.context)) ELSE cs,
            Ref(Len(is) + 1, TRUE))

\* createProxy(config) on instance i: clones the instance (Object.create +
\* Object.assign), applies the config to the clone, wraps the clone in a Proxy
createProxy(is, cs, i, config) ==
    LET this == is[i]
        newCtx == config.hasContext
        instance == [this EXCEPT
                       !.throwOnError = IF config.hasThrowOnError
                                        THEN config.throwOnError ELSE @,
                       !.transaction = IF config.transaction # NoTransaction
                                       THEN config.transaction ELSE @,
                       !.ctx = IF newCtx THEN Len(cs) + 1 ELSE @]
    IN Heap(Append(is, instance),
            IF newCtx THEN Append(cs, Spread(cs[this.ctx], config.context)) ELSE cs,
            Ref(Len(is) + 1, TRUE))

silent(is, cs, i) ==
    createProxy(is, cs, i, Config(TRUE, FALSE, NoTransaction, FALSE, EmptyContext))

withTransaction(is, cs, i, transaction) ==
    createProxy(is, cs, i, Config(FALSE, FALSE, transaction, FALSE, EmptyContext))

withContext(is, cs, i, context) ==
    createProxy(is, cs, i,
                Config(FALSE, FALSE, NoTransaction, TRUE, Spread(cs[is[i].ctx], context)))

\* A method of a service: whether its name has the `_` prefix, and what its
\* body does: return a value, throw, or return a promise that resolves or
\* rejects.
Method(internal, kind, val) == [internal |-> internal, kind |-> kind, val |-> val]

Outcome(kind, val) == [kind |-> kind, val |-> val]

Methods ==
    {Method(FALSE, "return", "value"), Method(FALSE, "resolve", "value"),
     Method(FALSE, "throw", "error"), Method(FALSE, "throw", NullStr),
     Method(FALSE, "reject", "error"), Method(TRUE, "throw", "error")}

Throws(m) == m.kind \in {"throw", "reject"}

\* wrapped, had it left the promise a method returns alone
wrapped_SyncOnly(target, m) ==
    IF m.kind = "throw" /\ ~target.throwOnError THEN Outcome("return", NullStr)
    ELSE Outcome(m.kind, m.val)

\* wrapped, had the catch blocks returned null without reading throwOnError
wrapped_AlwaysSwallows(target, m) ==
    CASE m.kind = "throw" -> Outcome("return", NullStr)
      [] m.kind = "reject" -> Outcome("resolve", NullStr)
      [] OTHER -> Outcome(m.kind, m.val)

\* wrapped, had the catch blocks re-thrown without reading throwOnError
wrapped_Rethrows(target, m) == Outcome(m.kind, m.val)

\* the function the Proxy's get trap returns for a function member
wrapped(target, m) ==
    CASE m.kind = "throw" ->
            IF ~target.throwOnError THEN Outcome("return", NullStr)
            ELSE Outcome("throw", m.val)
      [] m.kind = "reject" ->
            IF ~target.throwOnError THEN Outcome("resolve", NullStr)
            ELSE Outcome("reject", m.val)
      [] OTHER -> Outcome(m.kind, m.val)

\* calling method m through reference r
call(is, r, m) ==
    IF r.proxied /\ ~m.internal
    THEN wrapped(is[r.inst], m)
    ELSE Outcome(m.kind, m.val)

NoOp == [op |-> "none", ref |-> NoRef, out |-> NoRef]
NoCall == [ref |-> NoRef, method |-> Method(FALSE, "none", ""), outcome |-> Outcome("none", "")]

(***************************************************************************)
(* SpecS: services are constructed, configured, derived and called         *)
(***************************************************************************)
InitS ==
    /\ insts = construct(<<>>, <<>>).insts
    /\ ctxStore = construct(<<>>, <<>>).ctxStore
    /\ lastOp = NoOp
    /\ lastCall = NoCall
    /\ pIdle
    /\ vIdle
    /\ rIdle
    /\ cIdle
    /\ lIdle

Apply(op, r, h) ==
    /\ insts' = h.insts
    /\ ctxStore' = h.ctxStore
    /\ lastOp' = [op |-> op, ref |-> r, out |-> h.out]
    /\ lastCall' = NoCall
    /\ UNCHANGED <<vVars, pVars, xVars>>

Configure(r, config) ==
    /\ config.hasContext => Len(ctxStore) < MaxCtx
    /\ Apply("configure", r, configure(insts, ctxStore, r.inst, config))

Silent(r) ==
    /\ Len(insts) < MaxInsts
    /\ Apply("silent", r, silent(insts, ctxStore, r.inst))

WithTransaction(r, transaction) ==
    /\ Len(insts) < MaxInsts
    /\ Apply("withTransaction", r, withTransaction(insts, ctxStore, r.inst, transaction))

WithContext(r, context) ==
    /\ Len(insts) < MaxInsts
    /\ Len(ctxStore) < MaxCtx
    /\ Apply("withContext", r, withContext(insts, ctxStore, r.inst, context))

\* this.context[key] = value (or delete this.context[key]) in a method called
\* through reference r: a write to the context map the instance refers to
mutateContext(is, cs, i, key, value) ==
    Heap(is, [cs EXCEPT ![is[i].ctx] = [@ EXCEPT ![key] = value]], NoRef)

MutateContext(r, key, value) ==
    /\ ctxStore[insts[r.inst].ctx][key] # value
    /\ Apply("mutateContext", r, mutateContext(insts, ctxStore, r.inst, key, value))

Call(r, m) ==
    /\ lastCall' = [ref |-> r, method |-> m, outcome |-> call(insts, r, m)]
    /\ lastOp' = [op |-> "call", ref |-> r, out |-> NoRef]
    /\ UNCHANGED <<insts, ctxStore, vVars, pVars, xVars>>

\* The references at hand.
Refs ==
    {Ref(i, i > 1) : i \in 1..Len(insts)}
    \cup (IF lastOp.out # NoRef THEN {lastOp.out} ELSE {})

NextS ==
    \/ \E r \in Refs, config \in ServiceConfigs : Configure(r, config)
    \/ \E r \in Refs : Silent(r)
    \/ \E r \in Refs, transaction \in Transactions : WithTransaction(r, transaction)
    \/ \E r \in Refs, context \in ContextMaps : WithContext(r, context)
    \/ \E r \in Refs, m \in Methods : Call(r, m)
    \/ \E r \in Refs, key \in ContextKeys, value \in ContextValues \cup {Absent} :
            MutateContext(r, key, value)

SpecS == InitS /\ [][NextS]_vars

(***************************************************************************)
(* Properties of the service configuration wrapper                         *)
(***************************************************************************)
\* the empty result of a call: null, or a promise resolved with null
IsEmptyResult(m, out) ==
    \/ (m.kind = "throw" /\ out = Outcome("return", NullStr))
    \/ (m.kind = "reject" /\ out = Outcome("resolve", NullStr))

\* the error reaches the caller, unchanged
Propagates(m, out) == out = Outcome(m.kind, m.val)

\* C6: a public method that throws returns an empty result when called on
\* s.silent(), whatever the error and whatever s, and still throws when
\* called on the un-wrapped s.
C6_SilentSwallows ==
    /\ \A r \in Refs, m \in Methods :
            (Throws(m) /\ ~m.internal) =>
                LET h == silent(insts, ctxStore, r.inst)
                IN /\ IsEmptyResult(m, call(h.insts, h.out, m))
                   /\ ~r.proxied => Propagates(m, call(h.insts, r, m))
    /\ (lastOp.op = "call" /\ Throws(lastCall.method) /\ ~lastCall.method.internal) =>
            /\ (lastCall.ref.proxied /\ ~insts[lastCall.ref.inst].throwOnError) =>
                    IsEmptyResult(lastCall.method, lastCall.outcome)
            /\ ~lastCall.ref.proxied => Propagates(lastCall.method, lastCall.outcome)

C6_Witness ==
    /\ lastOp.op = "call"
    /\ lastCall.ref.proxied
    /\ lastCall.method = Method(FALSE, "throw", "error")
    /\ lastCall.outcome = Outcome("return", NullStr)
    /\ insts[1].throwOnError
    /\ call(insts, Ref(1, FALSE), lastCall.method) = Outcome("throw", "error")

DerivationOps == {"silent", "withTransaction", "withContext"}

\* the configuration of instance i, its context map read through the store
ConfigOf(is, cs, i) ==
    [throwOnError |-> is[i].throwOnError,
     transaction |-> is[i].transaction,
     context |-> cs[is[i].ctx]]

\* C7: silent(), withTransaction(h) and withContext(c) never mutate: the
\* throwOnError, transaction and context of the source and of every view
\* derived before are what they were, and only the new view carries the
\* change.
C7_DerivationNeverMutates ==
    [][lastOp'.op \in DerivationOps =>
        /\ Len(insts') = Len(insts) + 1
        /\ \A i \in 1..Len(insts) :
                /\ insts'[i] = insts[i]
                /\ ConfigOf(insts', ctxStore', i) = ConfigOf(insts, ctxStore, i)
        /\ \A c \in 1..Len(ctxStore) : ctxStore'[c] = ctxStore[c]
        /\ lastOp'.out = Ref(Len(insts'), TRUE)
        /\ LET src == ConfigOf(insts, ctxStore, lastOp'.ref.inst)
               new == ConfigOf(insts', ctxStore', Len(insts'))
           IN CASE lastOp'.op = "silent" ->
                    new = [src EXCEPT !.throwOnError = FALSE]
                [] lastOp'.op = "withTransaction" ->
                    \E tx \in Transactions : new = [src EXCEPT !.transaction = tx]
                [] OTHER ->
                    \E c \in ContextMaps :
                        new = [src EXCEPT !.context = Spread(src.context, c)]
    ]_vars

C7_Witness ==
    /\ lastOp.op = "withContext"
    /\ lastOp.ref.proxied
    /\ Len(insts) = 3
    /\ ~insts[lastOp.ref.inst].throwOnError
    /\ ctxStore[insts[lastOp.out.inst].ctx] # ctxStore[insts[lastOp.ref.inst].ctx]

IsAsync(m) == m.kind \in {"resolve", "reject"}

\* what the error policy makes of an awaitable's outcome
AsyncPolicy(throwOnError, m) ==
    IF m.kind = "reject" /\ ~throwOnError THEN Outcome("resolve", NullStr)
    ELSE Outcome(m.kind, m.val)

\* C22: for a public method that returns an awaitable, a derived view applies
\* its error policy to the eventual failure only: with throwOnError false a
\* rejection resolves to an empty result, with throwOnError true it
\* propagates, and a successful result is delivered unchanged in both cases.
C22_AsyncPolicy ==
    /\ \A r \in Refs, m \in Methods :
            (r.proxied /\ IsAsync(m) /\ ~m.internal) =>
                call(insts, r, m) = AsyncPolicy(insts[r.inst].throwOnError, m)
    /\ (lastOp.op = "call" /\ lastCall.ref.proxied /\ IsAsync(lastCall.method)
            /\ ~lastCall.method.internal) =>
            lastCall.outcome =
                AsyncPolicy(insts[lastCall.ref.inst].throwOnError, lastCall.method)

C22_Witness ==
    /\ lastOp.op = "call"
    /\ lastCall.ref.proxied
    /\ ~insts[lastCall.ref.inst].throwOnError
    /\ lastCall.method = Method(FALSE, "resolve", "value")
    /\ lastCall.outcome = Outcome("resolve", "value")
    /\ call(insts, lastCall.ref, Method(FALSE, "reject", "error")) = Outcome("resolve", NullStr)

\* C23: on a derived view whose throwOnError is true every public method call
\* has the outcome of the same call on the un-wrapped instance with the same
\* data: the same return value, or the same error propagated unchanged.
C23_ThrowingViewTransparent ==
    /\ \A r \in Refs, m \in Methods :
            (r.proxied /\ insts[r.inst].throwOnError /\ ~m.internal) =>
                /\ call(insts, r, m) = call(insts, Ref(r.inst, FALSE), m)
                /\ call(insts, r, m) = Outcome(m.kind, m.val)
    /\ (lastOp.op = "call" /\ lastCall.ref.proxied
            /\ insts[lastCall.ref.inst].throwOnError /\ ~lastCall.method.internal) =>
            lastCall.outcome = Outcome(lastCall.method.kind, lastCall.method.val)

C23_Witness ==
    /\ lastOp.op = "call"
    /\ lastCall.ref.proxied
    /\ insts[lastCall.ref.inst].throwOnError
    /\ insts[lastCall.ref.inst].transaction = "tx1"
    /\ insts[1].transaction = NoTransaction
    /\ lastCall.method = Method(FALSE, "throw", "error")
    /\ lastCall.outcome = Outcome("throw", "error")

\* an intercepted view with throwOnError false
IsSilentView(is, r) == r # NoRef /\ r.proxied /\ ~is[r.inst].throwOnError

\* C24: interception survives chaining: a configure that does not set
\* throwOnError, a withTransaction or a withContext applied to an intercepted
\* view with throwOnError false returns an intercepted view with throwOnError
\* false again, on which a throwing public method returns an empty result.
C24_InterceptionSurvivesChaining ==
    [][(/\ lastOp'.op \in {"configure", "withTransaction", "withContext"}
        /\ lastOp' # lastOp
        /\ IsSilentView(insts, lastOp'.ref)
        /\ insts'[lastOp'.ref.inst].throwOnError = insts[lastOp'.ref.inst].throwOnError
        /\ lastOp'.op = "configure" => insts'[lastOp'.ref.inst] # insts[lastOp'.ref.inst]) =>
            /\ IsSilentView(insts', lastOp'.out)
            /\ \A m \in Methods :
                    (Throws(m) /\ ~m.internal) =>
                        IsEmptyResult(m, call(insts', lastOp'.out, m))
    ]_vars

WriteOps == {"configure", "mutateContext"}

\* C25: no mutable state is shared between a base service and its derived
\* views: a write made through one reference (configure, or a mutation of its
\* context map) changes the throwOnError, transaction and context seen
\* through no other instance, base or view.
C25_NoSharedMutableState ==
    [][(lastOp'.op \in WriteOps /\ lastOp' # lastOp) =>
            \A j \in 1..Len(insts) :
                j # lastOp'.ref.inst =>
                    ConfigOf(insts', ctxStore', j) = ConfigOf(insts, ctxStore, j)
    ]_vars

(***************************************************************************)
(* Dispatcher: a handler that answered by itself                           *)
(***************************************************************************)
SentByHandler ==
    /\ pc = "done"
    /\ ~HandlerOutcome(reqBeh).threw
    /\ reqBeh.sends

\* C26: when the handler has already sent a response (headers sent) by the
\* time its call returns, the dispatcher emits nothing further for that
\* request, whatever value the handler returned: the response object is as the
\* handler left it, with its one response, and next is not called.
C26_HeadersSentNothingFurther ==
    SentByHandler =>
        /\ res = HandlerEffect(reqBeh, FreshRes)
        /\ res.sent = <<[status |-> 202, body |-> ManualBody("handler")]>>
        /\ ~res.fault
        /\ reqErr = NoThrown

C26_Witness ==
    /\ SentByHandler
    /\ HandlerOutcome(reqBeh).value.t = "ApiResponse"
    /\ Len(res.sent) = 1
    /\ res.headersSent

(***************************************************************************)
(* Modules and routes (router-manager.ts, router-builder.ts)               *)
(*                                                                         *)
(* A ModuleDefinition is an object: heap holds the objects and modules,    *)
(* like every argument of register, holds references (indices) into it.    *)
(* A middleware is a name, "notAFunction" standing for a value that is no  *)
(* function; a handler is the pair of the controller it was taken from     *)
(* and its method name. An absent middlewares list is the empty list.      *)
(***************************************************************************)
MaxModules == 3

RouteDefinition(method, path, handler, controller, middlewares) ==
    [method |-> method, path |-> path, handler |-> handler,
     controller |-> controller, middlewares |-> middlewares]

\* route(method, path, handler, middlewares): a route that carries no controller
route(method, path, handler, middlewares) ==
    RouteDefinition(method, path, <<UndefinedStr, handler>>, UndefinedStr, middlewares)

\* bindController(controller)[method](path, handler, middlewares)
bindController(controller, method, path, handler, middlewares) ==
    RouteDefinition(method, path, <<controller, handler>>, controller, middlewares)

ModuleDefinition(prefix, middlewares, routes) ==
    [prefix |-> prefix, middlewares |-> middlewares, routes |-> routes]

\* the module definitions the application's code holds and registers
CallerModules ==
    << ModuleDefinition("/users", <<"auth">>,
            <<bindController("users", "get", "/", "list", <<>>),
              bindController("users", "post", "/", "create", <<"audit">>)>>),
       ModuleDefinition("/shop", <<>>,
            <<bindController("orders", "get", "/orders", "list", <<>>),
              bindController("users", "get", "/buyers", "list", <<>>)>>),
       ModuleDefinition("/health", <<"notAFunction">>,
            <<route("get", "/", "ping", <<>>)>>) >>

\* register's first argument: one module or an array of modules
ModuleExports ==
    {[isArray |-> FALSE, refs |-> <<i>>] : i \in DOMAIN CallerModules}
    \cup {[isArray |-> TRUE, refs |-> <<1, 2>>], [isArray |-> TRUE, refs |-> <<3, 1>>]}

\* register's second argument: absent, or a list of middlewares
ExtraMiddlewares ==
    {[given |-> FALSE, list |-> <<>>], [given |-> TRUE, list |-> <<>>],
     [given |-> TRUE, list |-> <<"log">>]}

\* applyMiddlewares, had it pushed the middlewares onto the module it was given
applyMiddlewares_InPlace(h, ref, middlewares) ==
    IF ~middlewares.given \/ Len(middlewares.list) = 0
    THEN [heap |-> h, ref |-> ref]
    ELSE [heap |-> [h EXCEPT ![ref].middlewares = @ \o middlewares.list], ref |-> ref]

\* applyMiddlewares: the module itself, or a new object with the middlewares
\* appended to a copy of the module's list
applyMiddlewares(h, ref, middlewares) ==
    IF ~middlewares.given \/ Len(middlewares.list) = 0
    THEN [heap |-> h, ref |-> ref]
    ELSE [heap |-> Append(h, [h[ref] EXCEPT !.middlewares = @ \o middlewares.list]),
          ref |-> Len(h) + 1]

RECURSIVE PushEach(_, _, _, _)
\* moduleExport.forEach(mod => this.modules.push(this.applyMiddlewares(mod, middlewares)))
PushEach(h, ms, refs, middlewares) ==
    IF refs = <<>> THEN [heap |-> h, modules |-> ms]
    ELSE LET a == applyMiddlewares(h, Head(refs), middlewares)
         IN PushEach(a.heap, Append(ms, a.ref), Tail(refs), middlewares)

\* RoutesManager.register(moduleExport, middlewares)
registerModules(h, ms, moduleExport, middlewares) ==
    PushEach(h, ms, moduleExport.refs, middlewares)

\* RoutesManager.getModules(): the module objects in the order of this.modules
getModules(h, ms) == [k \in DOMAIN ms |-> h[ms[k]]]

IsFunction(mw) == mw # "notAFunction"

\* registerRoutes(moduleRouter, routes, controller): every route's handler is
\* wrapped to be called with the controller passed in as receiver
registerRoutes(routes, controller) ==
    [j \in DOMAIN routes |->
        [method |-> routes[j].method, path |-> routes[j].path,
         middlewares |-> routes[j].middlewares,
         handler |-> routes[j].handler, receiver |-> controller]]

\* RouteBuilder.build({modules}): one router per module, in order
build(ms) ==
    [k \in DOMAIN ms |->
        LET controller == IF Len(ms[k].routes) > 0
                             /\ ms[k].routes[1].controller # UndefinedStr
                          THEN ms[k].routes[1].controller ELSE NullStr
        IN [prefix |-> ms[k].prefix,
            use |-> SelectSeq(ms[k].middlewares, IsFunction),
            routes |-> registerRoutes(ms[k].routes, controller)]]

InitR ==
    /\ heap = CallerModules
    /\ modules = <<>>
    /\ mounted = <<>>
    /\ lastInvoke = <<>>
    /\ registered = <<>>
    /\ vIdle
    /\ pIdle
    /\ sIdle
    /\ cIdle
    /\ lIdle

RegisterModules(moduleExport, middlewares) ==
    /\ Len(modules) + Len(moduleExport.refs) <= MaxModules
    /\ LET r == registerModules(heap, modules, moduleExport, middlewares)
       IN /\ heap' = r.heap
          /\ modules' = r.modules
    /\ registered' = Append(registered, [moduleExport |-> moduleExport,
                                         middlewares |-> middlewares])
    /\ UNCHANGED <<mounted, lastInvoke, vVars, pVars, sVars, cVars, lVars>>

\* Application.setupRoutes, run once at start
Build ==
    /\ mounted = <<>>
    /\ modules # <<>>
    /\ mounted' = build(getModules(heap, modules))
    /\ UNCHANGED <<heap, modules, lastInvoke, registered, vVars, pVars, sVars, cVars, lVars>>

\* a request reaches route j of mounted module k: route.handler.call(controller, ...)
Invoke(k, j) ==
    /\ k \in DOMAIN mounted
    /\ j \in DOMAIN mounted[k].routes
    /\ lastInvoke' = <<[module |-> k, route |-> j,
                        handler |-> mounted[k].routes[j].handler,
                        receiver |-> mounted[k].routes[j].receiver]>>
    /\ lastInvoke' # lastInvoke
    /\ UNCHANGED <<heap, modules, mounted, registered, vVars, pVars, sVars, cVars, lVars>>

NextR ==
    \/ \E e \in ModuleExports, m \in ExtraMiddlewares : RegisterModules(e, m)
    \/ Build
    \/ \E k \in 1..MaxModules, j \in 1..2 : Invoke(k, j)

SpecR == InitR /\ [][NextR]_vars

\* C27: for every route of every module, the dispatcher invokes the route's
\* handler with the controller instance carried by that route's own
\* RouteDefinition as receiver, also when the routes of one module carry
\* different controller instances.
C27_ReceiverIsRoutesController ==
    \A i \in DOMAIN lastInvoke :
        LET inv == lastInvoke[i]
            def == heap[modules[inv.module]].routes[inv.route]
        IN def.controller # UndefinedStr =>
               /\ inv.handler = def.handler
               /\ inv.receiver = def.controller

RECURSIVE Flatten(_)
Flatten(ss) == IF ss = <<>> THEN <<>> ELSE Head(ss) \o Flatten(Tail(ss))

\* the modules the register calls so far announced, one per module passed, in
\* call order and array element order, as the caller's definitions state them
Announced ==
    Flatten([c \in DOMAIN registered |->
        [e \in DOMAIN registered[c].moduleExport.refs |->
            LET def == CallerModules[registered[c].moduleExport.refs[e]]
            IN [def EXCEPT !.middlewares = @ \o registered[c].middlewares.list]]])

\* C28: after any sequence of register calls getModules() lists the modules
\* in the order they were registered (array arguments in element order), each
\* with the extra middleware of its register call appended after its own
\* middleware, and no ModuleDefinition object passed in has been changed.
C28_RegisterAppendsInOrder ==
    /\ getModules(heap, modules) = Announced
    /\ \A i \in DOMAIN CallerModules : heap[i] = CallerModules[i]

C28_Witness ==
    /\ Len(registered) = 2
    /\ registered[1].moduleExport = [isArray |-> TRUE, refs |-> <<3, 1>>]
    /\ registered[1].middlewares.list = <<"log">>
    /\ registered[2].moduleExport.refs = <<2>>
    /\ ~registered[2].middlewares.given
    /\ getModules(heap, modules)[2].middlewares = <<"auth", "log">>
    /\ getModules(heap, modules)[3] = CallerModules[2]

(***************************************************************************)
(* ApplicationContextProvider (core/application-context.ts)                *)
(*                                                                         *)
(* The application holds ApplicationContext objects 1..MaxContexts;        *)
(* globalContext is a reference to one of them, or 0 for null.             *)
(***************************************************************************)
MaxContexts == 2

Contexts == 1..MaxContexts

StateValues == {"a", "b"}

CtxOp(op, arg, threw, ret) == [op |-> op, arg |-> arg, threw |-> threw, ret |-> ret]

\* initialize, had it stored the context without the guard
initialize_NoGuard(g, context) == [globalContext |-> context, threw |-> FALSE]

\* ApplicationContextProvider.initialize(context)
initialize(g, context) ==
    IF g # 0 THEN [globalContext |-> g, threw |-> TRUE]
    ELSE [globalContext |-> context, threw |-> FALSE]

\* ApplicationContextProvider.getContext()
getContext(g) ==
    IF g = 0 THEN [threw |-> TRUE, ret |-> 0] ELSE [threw |-> FALSE, ret |-> g]

\* ApplicationContextProvider.isInitialized()
isInitialized(g) == g # 0

\* ApplicationContextProvider.reset()
reset(g) == 0

\* ApplicationContext.setState(key, value), for the one key "tenant"
setState(st, c, value) == [st EXCEPT ![c] = value]

InitC ==
    /\ globalContext = 0
    /\ appState = [c \in Contexts |-> Absent]
    /\ lastCtxOp = CtxOp("none", 0, FALSE, 0)
    /\ vIdle
    /\ pIdle
    /\ sIdle
    /\ rIdle
    /\ lIdle

Initialize(context) ==
    /\ globalContext' = initialize(globalContext, context).globalContext
    /\ lastCtxOp' = CtxOp("initialize", context,
                          initialize(globalContext, context).threw, 0)
    /\ UNCHANGED <<appState, vVars, pVars, sVars, rVars, lVars>>

GetContext ==
    /\ lastCtxOp' = CtxOp("getContext", 0, getContext(globalContext).threw,
                          getContext(globalContext).ret)
    /\ UNCHANGED <<globalContext, appState, vVars, pVars, sVars, rVars, lVars>>

IsInitialized ==
    /\ lastCtxOp' = CtxOp("isInitialized", 0, FALSE,
                          IF isInitialized(globalContext) THEN 1 ELSE 0)
    /\ UNCHANGED <<globalContext, appState, vVars, pVars, sVars, rVars, lVars>>

Reset ==
    /\ globalContext' = reset(globalContext)
    /\ lastCtxOp' = CtxOp("reset", 0, FALSE, 0)
    /\ UNCHANGED <<appState, vVars, pVars, sVars, rVars, lVars>>

\* getContext().setState("tenant", value), as a service does through appContext
SetState(value) ==
    /\ ~getContext(globalContext).threw
    /\ appState' = setState(appState, getContext(globalContext).ret, value)
    /\ appState' # appState
    /\ lastCtxOp' = CtxOp("setState", 0, FALSE, getContext(globalContext).ret)
    /\ UNCHANGED <<globalContext, vVars, pVars, sVars, rVars, lVars>>

NextC ==
    \/ \E c \in Contexts : Initialize(c)
    \/ GetContext
    \/ IsInitialized
    \/ Reset
    \/ \E v \in StateValues : SetState(v)

SpecC == InitC /\ [][NextC]_vars

\* C29 as stated: the application context is initialized exactly once: once
\* initialize has succeeded no later operation replaces the stored context, a
\* further initialize fails and leaves it unchanged, and getContext fails iff
\* no context has been initialized.
C29_InitializedExactlyOnce ==
    [][/\ globalContext # 0 => globalContext' = globalContext
       /\ (lastCtxOp'.op = "initialize" /\ globalContext # 0) => lastCtxOp'.threw
       /\ lastCtxOp'.op = "getContext" => (lastCtxOp'.threw <=> globalContext = 0)
    ]_vars

\* C29 amended: as long as reset is not called the stored context is never
\* replaced; an initialize while a context is stored fails and leaves it
\* unchanged, an initialize while none is stored succeeds and stores its
\* argument; getContext fails iff no context is stored and otherwise returns
\* the stored one; reset clears the stored context, so that initialize can
\* succeed again afterwards.
C29_SingleInitUntilReset ==
    [][/\ (globalContext # 0 /\ lastCtxOp'.op # "reset") => globalContext' = globalContext
       /\ (lastCtxOp'.op = "initialize" /\ globalContext # 0) =>
              lastCtxOp'.threw /\ globalContext' = globalContext
       /\ (lastCtxOp'.op = "initialize" /\ globalContext = 0) =>
              ~lastCtxOp'.threw /\ globalContext' = lastCtxOp'.arg
       /\ lastCtxOp'.op = "getContext" =>
              /\ lastCtxOp'.threw <=> globalContext = 0
              /\ ~lastCtxOp'.threw => lastCtxOp'.ret = globalContext
       /\ lastCtxOp'.op = "reset" => globalContext' = 0
    ]_vars

C29_Witness ==
    /\ lastCtxOp = CtxOp("initialize", 2, TRUE, 0)
    /\ globalContext = 1
    /\ appState[1] = "a"

(***************************************************************************)
(* Logger (logger.ts): the entries held in memory                          *)
(*                                                                         *)
(* No LOGGING, DEBUG_MODE or LOG_PERSIST_MODE is set in the environment,   *)
(* so that isEnabled, isDebugEnabled and getPersistMode read this.config.  *)
(* The log file is not part of the state.                                  *)
(***************************************************************************)
MaxLogCalls == 4
MaxMemoryLimit == 3

PersistModes == {"none", "memory", "file", "both"}

LoggerConfig(enabled, debugMode, mode) ==
    [enabled |-> enabled, debugMode |-> debugMode, persistMode |-> mode]

\* a Partial<LoggerConfig>: 0 and the empty string stand for an absent field
ConfigureArgs ==
    {[maxMemoryLogs |-> n, persistMode |-> ""] : n \in 1..MaxMemoryLimit}
    \cup {[maxMemoryLogs |-> 0, persistMode |-> m] : m \in PersistModes}

Levels == {"info", "error", "debug"}

LogEntry(id, level) == [id |-> id, level |-> level]

\* addToMemory(entry)
addToMemory(ls, max, entry) ==
    LET pushed == Append(ls, entry)
    IN IF Len(pushed) > max THEN Tail(pushed) ELSE pushed

\* persist(entry): what it leaves in memory
persist(ls, max, mode, entry) ==
    IF mode \in {"memory", "both"} THEN addToMemory(ls, max, entry) ELSE ls

\* log(level, options, ...args): the memory and the counter afterwards
log(ls, max, counter, config, level, persistOption) ==
    IF level = "debug" /\ ~config.debugMode THEN [logs |-> ls, logCounter |-> counter]
    ELSE IF ~config.enabled THEN [logs |-> ls, logCounter |-> counter]
    ELSE IF persistOption
         THEN [logs |-> persist(ls, max, config.persistMode, LogEntry(counter + 1, level)),
               logCounter |-> counter + 1]
         ELSE [logs |-> ls, logCounter |-> counter]

\* Logger.configure(config)
loggerConfigure(max, config, arg) ==
    [config |-> IF arg.persistMode # "" THEN [config EXCEPT !.persistMode = arg.persistMode]
                ELSE config,
     maxMemoryLogs |-> IF arg.maxMemoryLogs # 0 THEN arg.maxMemoryLogs ELSE max]

\* new Logger(config)
InitLogger ==
    /\ logs = <<>>
    /\ logCounter = 0
    /\ maxMemoryLogs \in 1..MaxMemoryLimit
    /\ loggerConfig \in {LoggerConfig(e, d, m) : e, d \in BOOLEAN, m \in PersistModes}
    /\ vIdle
    /\ pIdle
    /\ sIdle
    /\ rIdle
    /\ cIdle

\* logger.info / warn / debug (options.persist as given), logger.error (always persisted)
Log(level, persistOption) ==
    /\ logCounter < MaxLogCalls
    /\ LET r == log(logs, maxMemoryLogs, logCounter, loggerConfig, level,
                    persistOption \/ level = "error")
       IN /\ logs' = r.logs
          /\ logCounter' = r.logCounter
    /\ UNCHANGED <<maxMemoryLogs, loggerConfig, vVars, pVars, sVars, rVars, cVars>>

LoggerConfigure(arg) ==
    /\ LET r == loggerConfigure(maxMemoryLogs, loggerConfig, arg)
       IN /\ loggerConfig' = r.config
          /\ maxMemoryLogs' = r.maxMemoryLogs
    /\ UNCHANGED <<logs, logCounter, vVars, pVars, sVars, rVars, cVars>>

\* logger.clearMemory()
ClearMemory ==
    /\ logs' = <<>>
    /\ UNCHANGED <<maxMemoryLogs, logCounter, loggerConfig, vVars, pVars, sVars, rVars, cVars>>

NextLogger ==
    \/ \E level \in Levels, p \in BOOLEAN : Log(level, p)
    \/ \E arg \in ConfigureArgs : LoggerConfigure(arg)
    \/ ClearMemory

SpecLogger == InitLogger /\ [][NextLogger]_vars

IsSuffix(s, t) == \E n \in 0..Len(t) : s = SubSeq(t, n + 1, Len(t))

\* C30: after any sequence of persisted log calls and logger.configure calls
\* (also ones that lower maxMemoryLogs) the number of entries held in memory
\* never exceeds the current maxMemoryLogs, and the entries kept are the most
\* recent ones in insertion order: every log call leaves a suffix of the
\* former entries followed by the new entry.
C30_MemoryWithinLimit ==
    [][/\ Len(logs') <= maxMemoryLogs'
       /\ logCounter' # logCounter =>
              \/ logs' = logs
              \/ IsSuffix(logs', Append(logs, LogEntry(logCounter', logs'[Len(logs')].level)))
    ]_vars

====
